---- MODULE Spec2Model ----
(***************************************************************************)
(* Model of the Supabase management client                                 *)
(* (src/src/supabase_admin/supabase_utils.ts, second half of the file):    *)
(*   - token manager: getSupabaseClient / refreshSupabaseToken /           *)
(*     isTokenExpired over the settings store, under the named lock        *)
(*     "refresh-supabase-token";                                           *)
(*   - process supervisor: runSupabaseServeCommand with its two timers.    *)
(* Optional JavaScript values (undefined | v) are modelled as <<>> | <<v>>.*)
(***************************************************************************)
EXTENDS Integers, Sequences, FiniteSets, TLC

VARIABLES
    \* ---- token manager ----
    settings,     \* the stored credential record (settings.supabase)
    now,          \* Math.floor(Date.now() / 1000)
    lockHolder,   \* holder of the lock "refresh-supabase-token", 0 = free
    pc,           \* position of each getSupabaseClient call
    atStart,      \* what each call saw in its first synchronous block
    waited,       \* the call found the lock taken and had to wait for it
    result,       \* settled value of each call
    exchanges,    \* log of the POSTs made to the refresh endpoint
    \* ---- serve supervisor ----
    elapsed,      \* milliseconds since spawn()
    child,        \* state of the spawned child process
    childKilled,  \* child.killed
    exitInfo,     \* <<code, signal>> of the child once it has exited
    gracefulArmed, \* gracefulTimeout is pending
    forceArmed,   \* forceTimeout is pending
    killCalls,    \* every child.kill(...) call made by the supervisor
    delivered,    \* every signal actually sent to the child by kill()
    stdout,       \* captured stdout chunks
    stderr,       \* captured stderr chunks
    settled,      \* state of the promise of runSupabaseServeCommand
    errorMessage, \* message of the rejection, as its parts in order
    \* ---- CLI locator ----
    env,          \* process.env.SUPABASE_CLI_PATH
    platform,     \* process.platform
    appPath,      \* the argument of waitForSupabaseCli
    files,        \* the paths for which fs.existsSync is true
    globalCli,    \* what running the global lookup command gives
    cliPc,        \* position of the waitForSupabaseCli call
    envOverride,  \* the local envOverride
    clock,        \* Date.now() in milliseconds
    start,        \* the local start
    wake,         \* deadline of the timer of the pending sleep()
    loggedWaiting, \* the local loggedWaiting
    notices,      \* number of "not found yet" lines logged
    effects,      \* what the call has done: existsSync, exec, sleep
    location,     \* settled value of the call
    \* ---- quoteCommand ----
    command,      \* the argument
    quoted,       \* the returned string
    \* ---- deployment pipeline ----
    flowOp,       \* the function called: deploy, serve or name
    flowPc,       \* position of that call
    isTestBuild,  \* IS_TEST_BUILD
    args,         \* functionName and supabaseProjectId of the call
    processEnv,   \* process.env without SUPABASE_CLI_PATH
    spawns,       \* the simpleSpawn / spawn calls made, in order
    flowResult,   \* settled value of the call
    \* ---- bundler ----
    copy,         \* which version of the bundler module is loaded
    sourceFiles,  \* the module files that exist under the functions root
    sources,      \* the import statements of those files
    emptyEntry,   \* index.ts holds import statements only
    esbuildModulePromise, \* the esbuild module has been imported
    buildCalls,   \* number of build() calls made
    bundlePc,     \* position of the bundleSupabaseFunction call
    pending,      \* modules the engine has still to read
    inlined,      \* modules the engine has put in the bundle
    externals,    \* paths of the imports the engine leaves in the bundle
    bundleResult, \* settled value of the call
    specifier,    \* args.path of one onResolve call
    resolved,     \* what that call gave back
    \* ---- listSupabaseFunctionNames ----
    functionsDir, \* what fs.readdir(functionsDir) settles with
    listed,       \* settled value of the call
    \* ---- getSupabaseFunctionName / isServerFunction / isSupabaseSharedPath
    filePath,     \* the argument
    pathResult,   \* what the three functions return for it
    \* ---- sanitizeChatSuggestions ----
    rawSuggestions, \* the argument
    sanitized,    \* the returned list
    \* ---- formatChatHistoryForSuggestions ----
    messages,     \* the argument
    formatted,    \* the returned string
    \* ---- useChatSuggestions ----
    chatId,       \* prop: None (undefined) or Some(id)
    enabled,      \* prop
    isStreaming,  \* prop
    mounted,      \* whether the effect of the first render has run
    suggestions,  \* state
    isLoading,    \* state
    error,        \* state: Null or Some(message)
    requestIdRef, \* requestIdRef.current
    fetches,      \* the fetchSuggestions calls that reached the await, in
                  \* the order they started: requestId and position
    \* ---- the chat:get-suggestions handler ----
    settingsRead, \* what readSettings() gives: the settings, or it throws
    table,        \* the messages table, in createdAt order
    request,      \* the chatId of the request
    services,     \* how the query, getModelClient and generateObject settle
    handlerPc,    \* "idle", "query", "client", "generate", "done"
    generation,   \* None, or the model and the conversation of the prompt
    handlerResult \* None, or how the handler settled

tokenVars == <<settings, now, lockHolder, pc, atStart, waited, result,
               exchanges>>
serveVars == <<elapsed, child, childKilled, exitInfo, gracefulArmed, forceArmed,
               killCalls, delivered, stdout, stderr, settled, errorMessage>>
cliVars == <<env, platform, appPath, files, globalCli, cliPc, envOverride,
             clock, start, wake, loggedWaiting, notices, effects, location>>
quoteVars == <<command, quoted>>
flowVars == <<flowOp, flowPc, isTestBuild, args, processEnv, spawns,
              flowResult>>
bundleState == <<copy, sourceFiles, sources, emptyEntry, esbuildModulePromise,
                 buildCalls, bundlePc, pending, inlined, externals,
                 bundleResult>>
resolveVars == <<specifier, resolved>>
bundleVars == <<bundleState, resolveVars>>
listVars == <<functionsDir, listed>>
pathVars == <<filePath, pathResult>>
sanitizeVars == <<rawSuggestions, sanitized>>
formatVars == <<messages, formatted>>
propVars == <<chatId, enabled, isStreaming>>
stateVars == <<suggestions, isLoading, error>>
hookVars == <<propVars, mounted, stateVars, requestIdRef, fetches>>
handlerInputs == <<settingsRead, table, request, services>>
handlerVars == <<handlerInputs, handlerPc, generation, handlerResult>>
moreVars ==
    <<listVars, pathVars, sanitizeVars, formatVars, hookVars, handlerVars>>
oldVars == <<tokenVars, serveVars, cliVars, quoteVars, flowVars, bundleVars>>
vars == <<oldVars, moreVars>>

nonTokenVars == <<serveVars, cliVars, quoteVars, flowVars, bundleVars, moreVars>>
nonServeVars == <<tokenVars, cliVars, quoteVars, flowVars, bundleVars, moreVars>>
nonCliVars == <<tokenVars, serveVars, quoteVars, flowVars, bundleVars, moreVars>>
nonQuoteVars == <<tokenVars, serveVars, cliVars, flowVars, bundleVars, moreVars>>
nonBundleVars == <<tokenVars, serveVars, cliVars, quoteVars, flowVars, moreVars>>

-----------------------------------------------------------------------------
(* Bounds *)

NumCallers == 2
InitNow == 10000
MaxChunks == 1
MaxElapsed == 16000
MaxLen == 3
MaxEntries == 3
MaxTail == 4
MaxSuggestions == 3
MaxMessages == 2
MaxRequests == 3
MaxStored == 8

Callers == 1..NumCallers

-----------------------------------------------------------------------------
(* JavaScript helpers *)

None == <<>>
Some(v) == <<v>>

\* !x for an optional number: undefined and 0 are falsy
FalsyNumber(x) == x = None \/ x[1] = 0

\* x || 0 for an optional number
OrZero(x) == IF FalsyNumber(x) THEN 0 ELSE x[1]

-----------------------------------------------------------------------------
(* Strings *)
(* A string is a sequence of pieces; a piece is the double quote, the      *)
(* backslash, one whitespace character, or a run of other characters.      *)

DQ == "\""
BS == "\\"
Whitespace == {" ", "\t", "\n", "\r"}

\* command.includes("\"")
Includes(s, c) == \E k \in 1..Len(s) : s[k] = c

\* /(\s)/.test(command)
HasWhitespace(s) == \E k \in 1..Len(s) : s[k] \in Whitespace

\* command.replace(/"/g, '\\"')
RECURSIVE EscapeQuotes(_)
EscapeQuotes(s) ==
    IF s = <<>> THEN <<>>
    ELSE (IF Head(s) = DQ THEN <<BS, DQ>> ELSE <<Head(s)>>)
         \o EscapeQuotes(Tail(s))

\* command.replace('"', '\\"'): the first double quote only
RECURSIVE EscapeFirstQuote(_)
EscapeFirstQuote(s) ==
    IF s = <<>> THEN <<>>
    ELSE IF Head(s) = DQ THEN <<BS, DQ>> \o Tail(s)
         ELSE <<Head(s)>> \o EscapeFirstQuote(Tail(s))

\* quoteCommand that escapes only the first double quote
quoteCommand_firstQuoteOnly(c) ==
    LET escaped == IF Includes(c, DQ) THEN EscapeFirstQuote(c)
                   ELSE c
    IN IF HasWhitespace(escaped) THEN <<DQ>> \o escaped \o <<DQ>>
       ELSE escaped

quoteCommand(c) ==
    LET escaped == IF Includes(c, DQ) THEN EscapeQuotes(c)
                   ELSE c
    IN IF HasWhitespace(escaped) THEN <<DQ>> \o escaped \o <<DQ>>
       ELSE escaped

\* String.prototype.trim
RECURSIVE TrimStart(_)
TrimStart(s) ==
    IF s # <<>> /\ Head(s) \in Whitespace THEN TrimStart(Tail(s)) ELSE s

RECURSIVE TrimEnd(_)
TrimEnd(s) ==
    IF s # <<>> /\ s[Len(s)] \in Whitespace
    THEN TrimEnd(SubSeq(s, 1, Len(s) - 1)) ELSE s

trim(s) == TrimEnd(TrimStart(s))

\* stdout.split(/\r?\n/): the lines of s, in order
RECURSIVE SplitLines(_, _)
SplitLines(s, line) ==
    IF s = <<>> THEN <<line>>
    ELSE IF Head(s) = "\n" THEN <<line>> \o SplitLines(Tail(s), <<>>)
    ELSE IF Head(s) = "\r" /\ Len(s) > 1 /\ s[2] = "\n"
         THEN <<line>> \o SplitLines(Tail(Tail(s)), <<>>)
    ELSE SplitLines(Tail(s), Append(line, Head(s)))

\* lines.find(p): the first element satisfying p, here line.length > 0
RECURSIVE FindNonEmpty(_)
FindNonEmpty(lines) ==
    IF lines = <<>> THEN None
    ELSE IF Len(Head(lines)) > 0 THEN Some(Head(lines))
    ELSE FindNonEmpty(Tail(lines))

\* [trim(l) : l in lines]
MapTrim(lines) == [k \in 1..Len(lines) |-> trim(lines[k])]

-----------------------------------------------------------------------------
(* Token manager *)

TOKEN_SAFETY_MARGIN_S == 300

\* isTokenExpired with > for >=
isTokenExpired_strict(expiresIn, stored, currentTime) ==
    IF FalsyNumber(expiresIn) THEN TRUE
    ELSE currentTime > OrZero(stored.tokenTimestamp) + expiresIn[1]
                          - TOKEN_SAFETY_MARGIN_S

\* isTokenExpired without the 5-minute margin
isTokenExpired_noMargin(expiresIn, stored, currentTime) ==
    IF FalsyNumber(expiresIn) THEN TRUE
    ELSE currentTime >= OrZero(stored.tokenTimestamp) + expiresIn[1]

\* isTokenExpired(expiresIn): the argument is the caller's, the timestamp is
\* read from the store, the clock is read at the call.
isTokenExpired(expiresIn, stored, currentTime) ==
    IF FalsyNumber(expiresIn) THEN TRUE
    ELSE currentTime >= OrZero(stored.tokenTimestamp) + expiresIn[1]
                          - TOKEN_SAFETY_MARGIN_S

\* Tokens are numbered: 0 is the token on record at the start, k is the token
\* issued by the k-th exchange.
InitExpiresIn == {None, Some(0), Some(3600)}
InitTimestamps == {None, Some(InitNow - 4000), Some(InitNow - 3300),
                   Some(InitNow - 3299), Some(InitNow - 60)}
ResponseExpiresIn == {3600, 300}
TickDeltas == {3300}
MaxNow == InitNow + 3300

NoStart == [checked |-> FALSE, stale |-> FALSE, expiresIn |-> None,
            tokenTimestamp |-> None, currentTime |-> 0]

InitToken ==
    /\ \E a \in {None, Some(0)}, r \in {None, Some(0)},
          e \in InitExpiresIn, t \in InitTimestamps :
            settings = [accessToken |-> a, refreshToken |-> r,
                        expiresIn |-> e, tokenTimestamp |-> t]
    /\ now = InitNow
    /\ lockHolder = 0
    /\ pc = [i \in Callers |-> "idle"]
    /\ atStart = [i \in Callers |-> NoStart]
    /\ waited = [i \in Callers |-> FALSE]
    /\ result = [i \in Callers |-> [kind |-> "pending"]]
    /\ exchanges = <<>>

Throw(i, err) ==
    /\ pc' = [pc EXCEPT ![i] = "done"]
    /\ result' = [result EXCEPT ![i] = [kind |-> "error", error |-> err]]

Return(i, token) ==
    /\ pc' = [pc EXCEPT ![i] = "done"]
    /\ result' = [result EXCEPT ![i] = [kind |-> "client", accessToken |-> token]]

\* The named lock "refresh-supabase-token": a mutual-exclusion lock.
LockFree == lockHolder = 0
LockAcquire(i) == lockHolder' = i
LockRelease(i) == lockHolder' = 0

\* withLock(name, fn) at the call: run fn at once when the lock is free, else
\* wait for the holder to release it.
withLock(i) ==
    IF LockFree
      THEN /\ LockAcquire(i)
           /\ pc' = [pc EXCEPT ![i] = "refresh"]
           /\ UNCHANGED waited
      ELSE /\ pc' = [pc EXCEPT ![i] = "waiting"]
           /\ waited' = [waited EXCEPT ![i] = TRUE]
           /\ UNCHANGED lockHolder

\* getSupabaseClient, first synchronous block, with the lock left out.
getSupabaseClient_noLock(i) ==
    /\ pc[i] = "idle"
    /\ IF settings.accessToken = None
         THEN /\ Throw(i, "Supabase access token not found")
              /\ atStart' = atStart
         ELSE /\ atStart' = [atStart EXCEPT ![i] =
                    [checked |-> TRUE,
                     stale |-> isTokenExpired(settings.expiresIn, settings, now),
                     expiresIn |-> settings.expiresIn,
                     tokenTimestamp |-> settings.tokenTimestamp,
                     currentTime |-> now]]
              /\ IF isTokenExpired(settings.expiresIn, settings, now)
                   THEN /\ pc' = [pc EXCEPT ![i] = "refresh"]
                        /\ UNCHANGED result
                   ELSE Return(i, settings.accessToken[1])
    /\ UNCHANGED <<settings, now, exchanges, waited, lockHolder>>
    /\ UNCHANGED nonTokenVars

\* getSupabaseClient that goes through withLock whatever the staleness.
getSupabaseClient_alwaysLock(i) ==
    /\ pc[i] = "idle"
    /\ IF settings.accessToken = None
         THEN /\ Throw(i, "Supabase access token not found")
              /\ UNCHANGED <<atStart, waited, lockHolder>>
         ELSE /\ atStart' = [atStart EXCEPT ![i] =
                    [checked |-> TRUE,
                     stale |-> isTokenExpired(settings.expiresIn, settings, now),
                     expiresIn |-> settings.expiresIn,
                     tokenTimestamp |-> settings.tokenTimestamp,
                     currentTime |-> now]]
              /\ withLock(i)
              /\ UNCHANGED result
    /\ UNCHANGED <<settings, now, exchanges>>
    /\ UNCHANGED nonTokenVars

\* getSupabaseClient, first synchronous block: read the store, check the
\* access token, check staleness, return the client or call withLock.
getSupabaseClient(i) ==
    /\ pc[i] = "idle"
    /\ IF settings.accessToken = None
         THEN /\ Throw(i, "Supabase access token not found")
              /\ UNCHANGED <<atStart, waited, lockHolder>>
         ELSE /\ atStart' = [atStart EXCEPT ![i] =
                    [checked |-> TRUE,
                     stale |-> isTokenExpired(settings.expiresIn, settings, now),
                     expiresIn |-> settings.expiresIn,
                     tokenTimestamp |-> settings.tokenTimestamp,
                     currentTime |-> now]]
              /\ IF isTokenExpired(settings.expiresIn, settings, now)
                   THEN /\ withLock(i)
                        /\ UNCHANGED result
                   ELSE /\ Return(i, settings.accessToken[1])
                        /\ UNCHANGED <<waited, lockHolder>>
    /\ UNCHANGED <<settings, now, exchanges>>
    /\ UNCHANGED nonTokenVars

\* withLock once the holder has released the lock: take it and run fn.
withLockResume(i) ==
    /\ pc[i] = "waiting"
    /\ LockFree
    /\ LockAcquire(i)
    /\ pc' = [pc EXCEPT ![i] = "refresh"]
    /\ UNCHANGED <<settings, now, atStart, waited, result, exchanges>>
    /\ UNCHANGED nonTokenVars

\* refreshSupabaseToken without the staleness re-check under the lock.
refreshSupabaseToken_noRecheck(i) ==
    /\ pc[i] = "refresh"
    /\ IF settings.refreshToken = None
         THEN /\ LockRelease(i)
              /\ Throw(i, "Supabase refresh token not found")
              /\ UNCHANGED exchanges
         ELSE /\ exchanges' = Append(exchanges,
                     [by |-> i, refreshToken |-> settings.refreshToken[1],
                      status |-> "pending", response |-> None,
                      wrote |-> None])
              /\ pc' = [pc EXCEPT ![i] = "fetch"]
              /\ UNCHANGED <<result, lockHolder>>
    /\ UNCHANGED <<settings, now, atStart, waited>>
    /\ UNCHANGED nonTokenVars

\* refreshSupabaseToken that POSTs without checking that a refresh token is
\* on record (the body then carries no token, logged as -1).
refreshSupabaseToken_noTokenCheck(i) ==
    /\ pc[i] = "refresh"
    /\ IF ~isTokenExpired(settings.expiresIn, settings, now)
         THEN /\ LockRelease(i)
              /\ pc' = [pc EXCEPT ![i] = "reread"]
              /\ UNCHANGED <<result, exchanges>>
         ELSE /\ exchanges' = Append(exchanges,
                     [by |-> i,
                      refreshToken |-> IF settings.refreshToken = None THEN -1
                                       ELSE settings.refreshToken[1],
                      status |-> "pending", response |-> None,
                      wrote |-> None])
              /\ pc' = [pc EXCEPT ![i] = "fetch"]
              /\ UNCHANGED <<result, lockHolder>>
    /\ UNCHANGED <<settings, now, atStart, waited>>
    /\ UNCHANGED nonTokenVars

\* refreshSupabaseToken up to the fetch: re-read the store, return when the
\* token is no longer stale, throw without a refresh token, else POST.
refreshSupabaseToken(i) ==
    /\ pc[i] = "refresh"
    /\ IF ~isTokenExpired(settings.expiresIn, settings, now)
         THEN /\ LockRelease(i)
              /\ pc' = [pc EXCEPT ![i] = "reread"]
              /\ UNCHANGED <<result, exchanges>>
         ELSE IF settings.refreshToken = None
                THEN /\ LockRelease(i)
                     /\ Throw(i, "Supabase refresh token not found")
                     /\ UNCHANGED exchanges
                ELSE /\ exchanges' = Append(exchanges,
                            [by |-> i, refreshToken |-> settings.refreshToken[1],
                             status |-> "pending", response |-> None,
                      wrote |-> None])
                     /\ pc' = [pc EXCEPT ![i] = "fetch"]
                     /\ UNCHANGED <<result, lockHolder>>
    /\ UNCHANGED <<settings, now, atStart, waited>>
    /\ UNCHANGED nonTokenVars

\* index in the log of the pending exchange of call i
PendingOf(i) ==
    CHOOSE k \in 1..Len(exchanges) :
        exchanges[k].by = i /\ exchanges[k].status = "pending"

\* The fetch fails (network error) or answers non-2xx: the error is logged and
\* rethrown, the store is not written, the lock is released.
\* a failed exchange answered by making the exchange again
refreshFails_retries(i) ==
    /\ pc[i] = "fetch"
    /\ Len(exchanges) < 2
    /\ exchanges' = [exchanges EXCEPT ![PendingOf(i)].status = "failed"]
    /\ pc' = [pc EXCEPT ![i] = "refresh"]
    /\ UNCHANGED <<result, lockHolder>>
    /\ UNCHANGED <<settings, now, atStart, waited>>
    /\ UNCHANGED nonTokenVars

refreshFails(i) ==
    /\ pc[i] = "fetch"
    /\ \E err \in {"fetch failed", "Supabase token refresh failed"} :
        /\ exchanges' = [exchanges EXCEPT ![PendingOf(i)].status = "failed"]
        /\ Throw(i, err)
    /\ LockRelease(i)
    /\ UNCHANGED <<settings, now, atStart, waited>>
    /\ UNCHANGED nonTokenVars

\* a successful exchange that leaves the stored tokenTimestamp as it was
refreshSucceeds_keepsTimestamp(i) ==
    /\ pc[i] = "fetch"
    /\ \E e \in ResponseExpiresIn :
        LET k == PendingOf(i)
            body == [accessToken |-> k, refreshToken |-> k, expiresIn |-> e]
            written == [accessToken |-> Some(body.accessToken),
                        refreshToken |-> Some(body.refreshToken),
                        expiresIn |-> Some(body.expiresIn),
                        tokenTimestamp |-> settings.tokenTimestamp]
        IN /\ settings' = written
           /\ exchanges' = [exchanges EXCEPT ![k].status = "ok",
                                             ![k].response = Some(body),
                                             ![k].wrote = Some(written)]
    /\ LockRelease(i)
    /\ pc' = [pc EXCEPT ![i] = "reread"]
    /\ UNCHANGED <<now, atStart, waited, result>>
    /\ UNCHANGED nonTokenVars

\* The fetch answers 2xx and the body is parsed: writeSettings with the new
\* pair, expiresIn and tokenTimestamp = now; the lock is released.
refreshSucceeds(i) ==
    /\ pc[i] = "fetch"
    /\ \E e \in ResponseExpiresIn :
        LET k == PendingOf(i)
            body == [accessToken |-> k, refreshToken |-> k, expiresIn |-> e]
            written == [accessToken |-> Some(body.accessToken),
                        refreshToken |-> Some(body.refreshToken),
                        expiresIn |-> Some(body.expiresIn),
                        tokenTimestamp |-> Some(now)]
        IN /\ settings' = written
           /\ exchanges' = [exchanges EXCEPT ![k].status = "ok",
                                             ![k].response = Some(body),
                                             ![k].wrote = Some(written)]
    /\ LockRelease(i)
    /\ pc' = [pc EXCEPT ![i] = "reread"]
    /\ UNCHANGED <<now, atStart, waited, result>>
    /\ UNCHANGED nonTokenVars

\* getSupabaseClient after the lock: re-read the store and build the client.
rereadSettings(i) ==
    /\ pc[i] = "reread"
    /\ IF settings.accessToken = None
         THEN Throw(i, "Failed to refresh Supabase access token")
         ELSE Return(i, settings.accessToken[1])
    /\ UNCHANGED <<settings, now, lockHolder, atStart, waited, exchanges>>
    /\ UNCHANGED nonTokenVars

\* The wall clock advances.
Tick ==
    /\ \E d \in TickDeltas : now + d <= MaxNow /\ now' = now + d
    /\ UNCHANGED <<settings, lockHolder, pc, atStart, waited, result, exchanges>>
    /\ UNCHANGED nonTokenVars

NextToken ==
    \/ \E i \in Callers : getSupabaseClient(i)
    \/ \E i \in Callers : withLockResume(i)
    \/ \E i \in Callers : refreshSupabaseToken(i)
    \/ \E i \in Callers : refreshFails(i)
    \/ \E i \in Callers : refreshSucceeds(i)
    \/ \E i \in Callers : rereadSettings(i)
    \/ Tick

-----------------------------------------------------------------------------
(* Properties of the token manager (specification Spec) *)

AllDone == \A i \in Callers : pc[i] = "done"

\* some call found the token stale while another call held the refresh lock
Raced == \E i \in Callers : waited[i]

ExchangesBy(i) == {k \in 1..Len(exchanges) : exchanges[k].by = i}

\* the record written by the k-th exchange is not stale at the current time
StillFresh(k) ==
    /\ exchanges[k].status = "ok"
    /\ LET w == exchanges[k].wrote[1]
       IN now < w.tokenTimestamp[1] + w.expiresIn[1] - TOKEN_SAFETY_MARGIN_S

\* C1 (as stated): when calls race on a stale token (a refresh token being on
\* record), exactly one POST to the refresh endpoint has been made in total
\* once they have all settled.
C1_ExactlyOnePost ==
    (AllDone /\ Raced /\ settings.refreshToken # None) => Len(exchanges) = 1

\* C1 (amended): when calls race on a stale token and a refresh token is on
\* record, at least one POST is made, and exactly one in total when the first
\* exchange succeeds and the token it wrote is still not stale when the last
\* call settles.
C1_OnePostWhenFirstSucceeds ==
    (AllDone /\ Raced /\ settings.refreshToken # None) =>
        /\ Len(exchanges) >= 1
        /\ StillFresh(1) => Len(exchanges) = 1

C1_Witness ==
    /\ AllDone
    /\ Raced
    /\ Len(exchanges) = 1
    /\ StillFresh(1)
    /\ \A i \in Callers : result[i] = [kind |-> "client", accessToken |-> 1]

\* C2: at most one refresh exchange (fetch followed by writeSettings) is in
\* progress, and every call that runs refreshSupabaseToken holds the lock
\* "refresh-supabase-token".
C2_RefreshSerialized ==
    /\ Cardinality({i \in Callers : pc[i] \in {"refresh", "fetch"}}) <= 1
    /\ Cardinality({k \in 1..Len(exchanges) : exchanges[k].status = "pending"}) <= 1
    /\ \A i \in Callers : pc[i] \in {"refresh", "fetch"} => lockHolder = i

C2_Witness ==
    \E i, j \in Callers :
        /\ pc[i] = "fetch"
        /\ lockHolder = i
        /\ pc[j] = "waiting"

\* C3 (as stated): a call that found the token stale and had to wait for the
\* lock (a refresh token being on record) makes no exchange of its own and returns a client built with the
\* access token written by the exchange of another call.
C3_LoserNeverExchanges ==
    \A i \in Callers :
        (waited[i] /\ settings.refreshToken # None) =>
            /\ ExchangesBy(i) = {}
            /\ pc[i] = "done" =>
                 /\ result[i].kind = "client"
                 /\ \E k \in 1..Len(exchanges) :
                      /\ exchanges[k].by # i
                      /\ exchanges[k].status = "ok"
                      /\ result[i].accessToken = exchanges[k].wrote[1].accessToken[1]

\* C3 (amended): a call that had to wait for the lock makes no exchange of
\* its own and returns a client built with the token written by the first
\* exchange, whenever that exchange was made by another call, succeeded, and
\* wrote a token that is still not stale when the waiting call settles.
C3_LoserReusesFreshToken ==
    \A i \in Callers :
        (/\ waited[i]
         /\ pc[i] = "done"
         /\ Len(exchanges) >= 1
         /\ exchanges[1].by # i
         /\ StillFresh(1)) =>
            /\ ExchangesBy(i) = {}
            /\ result[i] = [kind |-> "client",
                            accessToken |-> exchanges[1].wrote[1].accessToken[1]]

C3_Witness ==
    \E i \in Callers :
        /\ waited[i]
        /\ pc[i] = "done"
        /\ Len(exchanges) = 1
        /\ exchanges[1].by # i
        /\ StillFresh(1)
        /\ result[i] = [kind |-> "client", accessToken |-> 1]

\* C10: the verdict of isTokenExpired is "stale" exactly when expiresIn is
\* absent or zero, or now >= tokenTimestamp + expiresIn - 300 with a missing
\* tokenTimestamp counted as 0.
C10_StalenessRule ==
    \A i \in Callers :
        atStart[i].checked =>
            LET e == atStart[i].expiresIn
                t == atStart[i].tokenTimestamp
                issuedAt == IF t = None THEN 0 ELSE t[1]
            IN atStart[i].stale <=>
                 \/ e = None
                 \/ e = Some(0)
                 \/ (e # None /\ atStart[i].currentTime >= issuedAt + e[1] - 300)

\* a verdict "stale" exactly on the boundary now = issuedAt + expiresIn - 300
C10_Witness ==
    \E i \in Callers :
        /\ atStart[i].checked /\ atStart[i].stale
        /\ atStart[i].expiresIn = Some(3600)
        /\ atStart[i].tokenTimestamp # None
        /\ atStart[i].currentTime = atStart[i].tokenTimestamp[1] + 3300

\* the staleness rule of the specification, on a record and a time
StaleByRule(e, t, time) ==
    \/ e = None
    \/ e = Some(0)
    \/ (e # None /\ time >= (IF t = None THEN 0 ELSE t[1]) + e[1] - 300)

\* call i has settled and no other call was ever started
AloneDone(i) == pc[i] = "done" /\ \A j \in Callers \ {i} : pc[j] = "idle"

C12_WriteOnSuccessOnly ==
    [][/\ (settings' # settings) =>
             \E i \in Callers : pc[i] = "fetch" /\ pc'[i] = "reread"
       /\ \A i \in Callers :
             (pc[i] = "fetch" /\ pc'[i] = "reread") =>
                 LET k == PendingOf(i)
                     r == exchanges'[k].response
                 IN /\ exchanges'[k].status = "ok"
                    /\ r # None
                    /\ settings' = [accessToken |-> Some(r[1].accessToken),
                                    refreshToken |-> Some(r[1].refreshToken),
                                    expiresIn |-> Some(r[1].expiresIn),
                                    tokenTimestamp |-> Some(now)]
       /\ \A i \in Callers :
             (pc[i] = "fetch" /\ pc'[i] = "done") =>
                 /\ exchanges'[PendingOf(i)].status = "failed"
                 /\ settings' = settings
                 /\ result'[i].kind = "error"
                 /\ result'[i].error \in {"fetch failed",
                                          "Supabase token refresh failed"}]_vars

\* a successful exchange whose record is in the store, written after the
\* clock had moved on from the old record's time
C12_Witness ==
    /\ Len(exchanges) = 1
    /\ exchanges[1].status = "ok"
    /\ settings = exchanges[1].wrote[1]
    /\ settings.tokenTimestamp = Some(now)
    /\ now > InitNow

\* C13 (as stated): with an access token but no refresh token on record, the
\* call fails with the refresh-token-not-found error.
C13_FailsWithoutRefreshToken ==
    \A i \in Callers :
        (pc[i] = "done" /\ atStart[i].checked /\ settings.refreshToken = None) =>
            result[i] = [kind |-> "error",
                         error |-> "Supabase refresh token not found"]

\* C13 (amended): the call fails with the refresh-token-not-found error
\* exactly when an access token is on record, the token is stale and no
\* refresh token is on record; a token that is not stale is returned even
\* though no refresh token is on record.
C13_FailsWithoutRefreshTokenWhenStale ==
    \A i \in Callers :
        pc[i] = "done" =>
            (result[i] = [kind |-> "error",
                          error |-> "Supabase refresh token not found"]
             <=> /\ atStart[i].checked
                 /\ StaleByRule(atStart[i].expiresIn, atStart[i].tokenTimestamp,
                                atStart[i].currentTime)
                 /\ settings.refreshToken = None)

C13_Witness ==
    \E i \in Callers :
        /\ pc[i] = "done"
        /\ atStart[i].checked /\ atStart[i].stale
        /\ settings.refreshToken = None
        /\ result[i] = [kind |-> "error",
                        error |-> "Supabase refresh token not found"]
        /\ exchanges = <<>>

\* C14: a call that finds the token not stale settles in its first step with
\* a client built with the stored access token; that step leaves the lock,
\* the log of exchanges and the store as they were.
C14_FreshTokenReadOnly ==
    [][\A i \in Callers :
          (/\ pc[i] = "idle" /\ pc'[i] # "idle"
           /\ settings.accessToken # None
           /\ ~StaleByRule(settings.expiresIn, settings.tokenTimestamp, now)) =>
              /\ pc'[i] = "done"
              /\ result'[i] = [kind |-> "client",
                               accessToken |-> settings.accessToken[1]]
              /\ lockHolder' = lockHolder
              /\ waited' = waited
              /\ exchanges' = exchanges
              /\ settings' = settings]_vars

\* issuedAt = now - 60, expiresIn = 3600: the stored token is returned
C14_Witness ==
    \E i \in Callers :
        /\ pc[i] = "done"
        /\ atStart[i].checked /\ ~atStart[i].stale
        /\ atStart[i].tokenTimestamp = Some(atStart[i].currentTime - 60)
        /\ result[i] = [kind |-> "client", accessToken |-> 0]
        /\ exchanges = <<>>
        /\ lockHolder = 0
        /\ settings.tokenTimestamp = atStart[i].tokenTimestamp

-----------------------------------------------------------------------------
(* Serve supervisor: runSupabaseServeCommand *)

SUPABASE_SERVE_RUN_DURATION_MS == 10000
SUPABASE_SERVE_FORCE_KILL_DELAY_MS == 4000

\* the graceful timer set with the force-kill delay
GracefulDeadline_short == SUPABASE_SERVE_FORCE_KILL_DELAY_MS

GracefulDeadline == SUPABASE_SERVE_RUN_DURATION_MS
ForceDeadline == SUPABASE_SERVE_RUN_DURATION_MS + SUPABASE_SERVE_FORCE_KILL_DELAY_MS

ExitCodes == {0, 1}
\* signals that can reach the child from outside the supervisor
OutsideSignals == {"SIGINT", "SIGKILL", "SIGTERM"}
ElapsedSteps == {2000, 4000}
Chunks == {"out"}

\* The state right after the promise executor has run: the child is spawned
\* (or the spawn failed and the error event is queued), the listeners are
\* attached, both timers are armed.
InitServe ==
    /\ elapsed = 0
    /\ child \in {"running", "spawnFailed"}
    /\ childKilled = FALSE
    /\ exitInfo = [code |-> None, signal |-> None, cause |-> "none"]
    /\ gracefulArmed = TRUE
    /\ forceArmed = TRUE
    /\ killCalls = <<>>
    /\ delivered = <<>>
    /\ stdout = <<>>
    /\ stderr = <<>>
    /\ settled = "pending"
    /\ errorMessage = None

\* child.kill(signal): the signal is sent, and child.killed set, when the
\* process handle is still there; a process that is gone receives nothing.
kill(sig) ==
    /\ killCalls' = Append(killCalls, [signal |-> sig, at |-> elapsed])
    /\ IF child = "running"
         THEN /\ delivered' = Append(delivered, [signal |-> sig, at |-> elapsed])
              /\ childKilled' = TRUE
         ELSE UNCHANGED <<delivered, childKilled>>

\* callback of gracefulTimeout
gracefulTimeout ==
    /\ gracefulArmed
    /\ elapsed >= GracefulDeadline
    /\ gracefulArmed' = FALSE
    /\ IF ~childKilled
         THEN kill("SIGTERM")
         ELSE UNCHANGED <<killCalls, delivered, childKilled>>
    /\ UNCHANGED <<elapsed, child, exitInfo, forceArmed, stdout, stderr,
                   settled, errorMessage>>
    /\ UNCHANGED nonServeVars

\* callback of forceTimeout
forceTimeout ==
    /\ forceArmed
    /\ elapsed >= ForceDeadline
    /\ forceArmed' = FALSE
    /\ IF ~childKilled
         THEN kill("SIGKILL")
         ELSE UNCHANGED <<killCalls, delivered, childKilled>>
    /\ UNCHANGED <<elapsed, child, exitInfo, gracefulArmed, stdout, stderr,
                   settled, errorMessage>>
    /\ UNCHANGED nonServeVars

\* cleanup that clears the graceful timer only
cleanup_gracefulOnly ==
    /\ gracefulArmed' = FALSE
    /\ forceArmed' = forceArmed

\* cleanup(): clearTimeout on both timers
cleanup ==
    /\ gracefulArmed' = FALSE
    /\ forceArmed' = FALSE

\* resolve / reject settle the promise once; later calls have no effect
resolve ==
    IF settled = "pending"
      THEN settled' = "resolved" /\ UNCHANGED errorMessage
      ELSE UNCHANGED <<settled, errorMessage>>

reject(msg) ==
    IF settled = "pending"
      THEN settled' = "rejected" /\ errorMessage' = Some(msg)
      ELSE UNCHANGED <<settled, errorMessage>>

\* child.stdout.on("data") / child.stderr.on("data")
onStdoutData ==
    /\ child \in {"running", "exited"}
    /\ Len(stdout) < MaxChunks
    /\ \E c \in Chunks : stdout' = Append(stdout, c)
    /\ UNCHANGED <<elapsed, child, childKilled, exitInfo, gracefulArmed,
                   forceArmed, killCalls, delivered, stderr, settled, errorMessage>>
    /\ UNCHANGED nonServeVars

onStderrData ==
    /\ child \in {"running", "exited"}
    /\ Len(stderr) < MaxChunks
    /\ \E c \in Chunks : stderr' = Append(stderr, c)
    /\ UNCHANGED <<elapsed, child, childKilled, exitInfo, gracefulArmed,
                   forceArmed, killCalls, delivered, stdout, settled, errorMessage>>
    /\ UNCHANGED nonServeVars

\* child.on("error"): the spawn failed (the status of such a child is the
\* negative errno, here ENOENT)
onError ==
    /\ child = "spawnFailed"
    /\ child' = "errored"
    /\ exitInfo' = [code |-> Some(-2), signal |-> None, cause |-> "spawn"]
    /\ cleanup
    /\ reject([prefix |-> "errorPrefix", details |-> <<": ", "err.message">>,
               stdout |-> stdout, stderr |-> stderr])
    /\ UNCHANGED <<elapsed, childKilled, killCalls, delivered, stdout, stderr>>
    /\ UNCHANGED nonServeVars

\* exitDetails of the close handler
exitDetails(code, signal) ==
    IF code # None THEN <<" (", "exit code", code[1], ")">>
    ELSE IF signal # None THEN <<" (", "signal", signal[1], ")">>
    ELSE <<" (", "unknown exit", ")">>

\* close handler that counts only exit code 0 as success
closeHandler_codeOnly(code, signal) ==
    /\ cleanup
    /\ IF code = Some(0)
         THEN resolve
         ELSE reject([prefix |-> "errorPrefix",
                      details |-> exitDetails(code, signal),
                      stdout |-> stdout, stderr |-> stderr])

\* body of child.on("close", (code, signal) => ...)
closeHandler(code, signal) ==
    /\ cleanup
    /\ IF code = Some(0) \/ signal = Some("SIGTERM") \/ signal = Some("SIGINT")
         THEN resolve
         ELSE reject([prefix |-> "errorPrefix",
                      details |-> exitDetails(code, signal),
                      stdout |-> stdout, stderr |-> stderr])

\* the close event: the child has ended and its stdio streams are closed
onClose ==
    /\ child \in {"exited", "errored"}
    /\ child' = "closed"
    /\ closeHandler(exitInfo.code, exitInfo.signal)
    /\ UNCHANGED <<elapsed, childKilled, exitInfo, killCalls, delivered,
                   stdout, stderr>>
    /\ UNCHANGED nonServeVars

\* Environment: the child exits with a code (on its own, or from a handler of
\* a signal it caught).
childExits ==
    /\ child = "running"
    /\ \E c \in ExitCodes :
         exitInfo' = [code |-> Some(c), signal |-> None, cause |-> "own"]
    /\ child' = "exited"
    /\ UNCHANGED <<elapsed, childKilled, gracefulArmed, forceArmed, killCalls,
                   delivered, stdout, stderr, settled, errorMessage>>
    /\ UNCHANGED nonServeVars

\* Environment: the child is terminated by a signal the supervisor sent.
childDiesOfSupervisorSignal ==
    /\ child = "running"
    /\ \E k \in 1..Len(delivered) :
         exitInfo' = [code |-> None, signal |-> Some(delivered[k].signal),
                      cause |-> "supervisor"]
    /\ child' = "exited"
    /\ UNCHANGED <<elapsed, childKilled, gracefulArmed, forceArmed, killCalls,
                   delivered, stdout, stderr, settled, errorMessage>>
    /\ UNCHANGED nonServeVars

\* Environment: the child is terminated by a signal from somewhere else.
childDiesOfOutsideSignal ==
    /\ child = "running"
    /\ \E s \in OutsideSignals :
         exitInfo' = [code |-> None, signal |-> Some(s), cause |-> "outside"]
    /\ child' = "exited"
    /\ UNCHANGED <<elapsed, childKilled, gracefulArmed, forceArmed, killCalls,
                   delivered, stdout, stderr, settled, errorMessage>>
    /\ UNCHANGED nonServeVars

\* Time passes; a timer that is due runs before time passes any further, and
\* so does the error event of a failed spawn, which is queued for the next
\* tick of the event loop.
TimePasses ==
    /\ child # "spawnFailed"
    /\ \E d \in ElapsedSteps :
         /\ elapsed + d <= MaxElapsed
         /\ gracefulArmed => elapsed + d <= GracefulDeadline
         /\ forceArmed => elapsed + d <= ForceDeadline
         /\ elapsed' = elapsed + d
    /\ UNCHANGED <<child, childKilled, exitInfo, gracefulArmed, forceArmed,
                   killCalls, delivered, stdout, stderr, settled, errorMessage>>
    /\ UNCHANGED nonServeVars

NextServe ==
    \/ gracefulTimeout
    \/ forceTimeout
    \/ onStdoutData
    \/ onStderrData
    \/ onError
    \/ onClose
    \/ childExits
    \/ childDiesOfSupervisorSignal
    \/ childDiesOfOutsideSignal
    \/ TimePasses

-----------------------------------------------------------------------------
(* Properties of the serve supervisor (specification SpecServe) *)

Delivered(sig) == {k \in 1..Len(delivered) : delivered[k].signal = sig}

\* C4: a child that is still running once the force timer has run, 4 seconds
\* after the graceful signal was sent to it, has been sent SIGKILL.
C4_ForcedKillAfterGrace ==
    (/\ child = "running"
     /\ elapsed >= 14000
     /\ ~forceArmed
     /\ \E k \in Delivered("SIGTERM") : delivered[k].at + 4000 <= elapsed)
        => Delivered("SIGKILL") # {}

\* C5: the graceful signal is sent only at 10 seconds after spawn, at most
\* once, and it has been sent to every child that is still running once the
\* graceful timer has run.
C5_GracefulAtTenSeconds ==
    /\ \A k \in Delivered("SIGTERM") : delivered[k].at = 10000
    /\ Cardinality(Delivered("SIGTERM")) <= 1
    /\ (child = "running" /\ elapsed >= 10000 /\ ~gracefulArmed)
          => Delivered("SIGTERM") # {}
    /\ (child = "running" /\ elapsed > 10000) => Delivered("SIGTERM") # {}

C5_Witness ==
    /\ child = "running"
    /\ elapsed = 10000
    /\ delivered = <<[signal |-> "SIGTERM", at |-> 10000]>>

\* C6: once the close event or the error event has been handled, neither
\* timer is pending, and no later step calls kill or sends a signal.
C6_NoSignalAfterExit ==
    [][(child \in {"closed", "errored"}) =>
          (/\ ~gracefulArmed /\ ~forceArmed
           /\ ~gracefulArmed' /\ ~forceArmed'
           /\ killCalls' = killCalls
           /\ delivered' = delivered)]_vars

\* the child closed before the graceful deadline and the time has gone past
\* both deadlines without any call of kill
C6_Witness ==
    /\ child = "closed"
    /\ elapsed > 14000
    /\ killCalls = <<>>

\* C7: the invocation has settled once more than 14 seconds have elapsed
\* since the spawn.
C7_SettledWithin14s ==
    elapsed > 14000 => settled # "pending"

\* C8: a child that never exits on its own has been stopped by the supervisor
\* once the escalation is over, and its invocation reports success; a child
\* that exits with code 1 makes the invocation report failure.
C8_StoppedChildSucceeds ==
    /\ elapsed > 14000 => child # "running"
    /\ (child = "closed" /\ exitInfo.cause = "supervisor") => settled = "resolved"
    /\ (child = "closed" /\ exitInfo.code = Some(1)) => settled = "rejected"

\* C9: the invocation resolves exactly when the close event has code 0 or
\* signal SIGTERM or SIGINT; every other close and every spawn error rejects
\* with a message that starts with the error prefix and holds the captured
\* stdout and stderr.
C9_ExitClassification ==
    LET success == \/ exitInfo.code = Some(0)
                   \/ exitInfo.signal = Some("SIGTERM")
                   \/ exitInfo.signal = Some("SIGINT")
    IN /\ settled = "resolved" => (child = "closed" /\ success)
       /\ child = "closed" => settled = (IF success THEN "resolved" ELSE "rejected")
       /\ child = "errored" => settled = "rejected"
       /\ settled = "rejected" =>
            /\ errorMessage # None
            /\ errorMessage[1].prefix = "errorPrefix"
            /\ errorMessage[1].stdout = stdout
            /\ errorMessage[1].stderr = stderr
            /\ errorMessage[1].details =
                 (IF exitInfo.cause = "spawn" THEN <<": ", "err.message">>
                  ELSE IF exitInfo.code # None
                         THEN <<" (", "exit code", exitInfo.code[1], ")">>
                         ELSE <<" (", "signal", exitInfo.signal[1], ")">>)

\* a child killed from outside with SIGKILL after it produced output
C9_Witness ==
    /\ child = "closed"
    /\ settled = "rejected"
    /\ exitInfo.signal = Some("SIGKILL")
    /\ Len(stdout) > 0
    /\ Len(stderr) > 0
    /\ errorMessage[1].stdout = stdout

-----------------------------------------------------------------------------
(* Specifications *)

-----------------------------------------------------------------------------
(* CLI locator: waitForSupabaseCli *)

SUPABASE_CLI_POLL_INTERVAL_MS == 1000
SUPABASE_CLI_WAIT_TIMEOUT_MS == 300000

Platforms == {"linux", "win32"}
AppPaths == {<<"/app">>, <<"/my", " ", "app">>}

\* values of process.env.SUPABASE_CLI_PATH
EnvValues == {None, Some(<<>>), Some(<<" ">>), Some(<<"/x/y">>),
              Some(<<" ", "/x", " ", "y", "\n">>)}

\* what `which supabase` / `where supabase` does when it is run: exits
\* non-zero (execPromise rejects) or prints stdout
GlobalNotFound == {[ok |-> FALSE, stdout |-> <<>>], [ok |-> TRUE, stdout |-> <<"\n">>]}
GlobalFound == {[ok |-> TRUE, stdout |-> <<"/usr/bin/supabase", "\n">>],
                [ok |-> TRUE,
                 stdout |-> <<"\r", "\n", " ", "C:\\Program", " ",
                              "Files\\supabase.exe", "\r", "\n",
                              "C:\\other\\supabase.exe">>]}
GlobalOutcomes == GlobalNotFound \cup GlobalFound

\* how long the lookup command runs, and how late a timer may fire (ms)
LookupDurations == {0, 1000}
TimerLateness == {0}

\* path.join(appPath, "node_modules", ".bin", binName)
BinPath(dir, binName) == dir \o <<"/node_modules/.bin/", binName>>

BinNames == {"supabase", "supabase.cmd", "supabase.exe"}

NoLocation == [kind |-> "pending"]
Location(cmd, raw, src) ==
    [kind |-> "location", command |-> cmd, rawPath |-> raw, source |-> src]
\* (the message without its backquotes)
CliNotFound ==
    [kind |-> "error",
     error |-> "Supabase CLI not found. Install it with pnpm add -D supabase or npm install --save-dev supabase before running Supabase functions."]

\* a string is truthy when it is defined and not empty
Truthy(x) == x # None /\ x[1] # <<>>

\* process.env.SUPABASE_CLI_PATH?.trim()
TrimmedEnv(e) == IF e = None THEN None ELSE Some(trim(e[1]))

InitCli ==
    /\ env \in EnvValues
    /\ platform \in Platforms
    /\ appPath \in AppPaths
    /\ files \in SUBSET {BinPath(appPath, b) : b \in BinNames}
    /\ globalCli \in GlobalOutcomes
    /\ cliPc = "idle"
    /\ envOverride = None
    /\ clock = 0
    /\ start = 0
    /\ wake = 0
    /\ loggedWaiting = FALSE
    /\ notices = 0
    /\ effects = {}
    /\ location = NoLocation

\* getLocalSupabaseCli: the location, or None for undefined
getLocalSupabaseCli(dir) ==
    LET binName == IF platform = "win32" THEN "supabase.cmd" ELSE "supabase"
        localPath == BinPath(dir, binName)
        exePath == BinPath(dir, "supabase.exe")
    IN IF localPath \in files
       THEN Some(Location(quoteCommand(localPath), localPath, "local"))
       ELSE IF platform = "win32" /\ exePath \in files
       THEN Some(Location(quoteCommand(exePath), exePath, "local"))
       ELSE None

\* getGlobalSupabaseCli once the lookup command has finished with outcome o
getGlobalSupabaseCli(o) ==
    IF ~o.ok THEN None
    ELSE LET candidate == FindNonEmpty(MapTrim(SplitLines(o.stdout, <<>>)))
         IN IF Truthy(candidate)
            THEN Some(Location(quoteCommand(candidate[1]), candidate[1],
                               "global"))
            ELSE None

\* waitForSupabaseCli that never looks at the environment variable
waitForSupabaseCli_noOverride ==
    /\ cliPc = "idle"
    /\ envOverride' = TrimmedEnv(env)
    /\ start' = clock
    /\ loggedWaiting' = FALSE
    /\ cliPc' = "loop"
    /\ UNCHANGED location
    /\ UNCHANGED <<env, platform, appPath, files, globalCli, clock, wake,
                   notices, effects>>
    /\ UNCHANGED nonCliVars

\* waitForSupabaseCli up to the loop: the override, start, loggedWaiting
waitForSupabaseCli ==
    /\ cliPc = "idle"
    /\ envOverride' = TrimmedEnv(env)
    /\ IF Truthy(TrimmedEnv(env))
         THEN /\ location' = Location(quoteCommand(trim(env[1])),
                                      trim(env[1]), "env")
              /\ cliPc' = "returned"
              /\ UNCHANGED <<start, loggedWaiting>>
         ELSE /\ start' = clock
              /\ loggedWaiting' = FALSE
              /\ cliPc' = "loop"
              /\ UNCHANGED location
    /\ UNCHANGED <<env, platform, appPath, files, globalCli, clock, wake,
                   notices, effects>>
    /\ UNCHANGED nonCliVars

\* the loop test with the ceiling one poll interval short
loopIteration_earlyCeiling ==
    /\ cliPc = "loop"
    /\ IF ~(clock - start < SUPABASE_CLI_WAIT_TIMEOUT_MS
                             - SUPABASE_CLI_POLL_INTERVAL_MS)
         THEN /\ location' = CliNotFound
              /\ cliPc' = "failed"
              /\ UNCHANGED effects
         ELSE LET local == getLocalSupabaseCli(appPath)
              IN IF local # None
                 THEN /\ location' = local[1]
                      /\ cliPc' = "returned"
                      /\ effects' = effects \cup {"existsSync"}
                 ELSE /\ cliPc' = "lookup"
                      /\ effects' = effects \cup {"existsSync", "exec"}
                      /\ UNCHANGED location
    /\ UNCHANGED <<env, platform, appPath, files, globalCli, envOverride,
                   clock, start, wake, loggedWaiting, notices>>
    /\ UNCHANGED nonCliVars

\* the loop that asks the global lookup before the project-local install
loopIteration_globalFirst ==
    /\ cliPc = "loop"
    /\ IF ~(clock - start < SUPABASE_CLI_WAIT_TIMEOUT_MS)
         THEN /\ location' = CliNotFound
              /\ cliPc' = "failed"
              /\ UNCHANGED effects
         ELSE LET local == getLocalSupabaseCli(appPath)
                  global == getGlobalSupabaseCli(globalCli)
              IN IF global # None
                 THEN /\ location' = global[1]
                      /\ cliPc' = "returned"
                      /\ effects' = effects \cup {"exec"}
                 ELSE IF local # None
                 THEN /\ location' = local[1]
                      /\ cliPc' = "returned"
                      /\ effects' = effects \cup {"existsSync", "exec"}
                 ELSE /\ cliPc' = "lookup"
                      /\ effects' = effects \cup {"existsSync", "exec"}
                      /\ UNCHANGED location
    /\ UNCHANGED <<env, platform, appPath, files, globalCli, envOverride,
                   clock, start, wake, loggedWaiting, notices>>
    /\ UNCHANGED nonCliVars

\* the loop that checks the project-local install in its first pass only
loopIteration_localOnce ==
    /\ cliPc = "loop"
    /\ IF ~(clock - start < SUPABASE_CLI_WAIT_TIMEOUT_MS)
         THEN /\ location' = CliNotFound
              /\ cliPc' = "failed"
              /\ UNCHANGED effects
         ELSE LET local == IF loggedWaiting THEN None
                           ELSE getLocalSupabaseCli(appPath)
              IN IF local # None
                 THEN /\ location' = local[1]
                      /\ cliPc' = "returned"
                      /\ effects' = effects \cup {"existsSync"}
                 ELSE /\ cliPc' = "lookup"
                      /\ effects' = effects \cup {"existsSync", "exec"}
                      /\ UNCHANGED location
    /\ UNCHANGED <<env, platform, appPath, files, globalCli, envOverride,
                   clock, start, wake, loggedWaiting, notices>>
    /\ UNCHANGED nonCliVars

\* one pass of the while loop up to its first await: the ceiling test, then
\* getLocalSupabaseCli, then the start of the global lookup
loopIteration ==
    /\ cliPc = "loop"
    /\ IF ~(clock - start < SUPABASE_CLI_WAIT_TIMEOUT_MS)
         THEN /\ location' = CliNotFound
              /\ cliPc' = "failed"
              /\ UNCHANGED effects
         ELSE LET local == getLocalSupabaseCli(appPath)
              IN IF local # None
                 THEN /\ location' = local[1]
                      /\ cliPc' = "returned"
                      /\ effects' = effects \cup {"existsSync"}
                 ELSE /\ cliPc' = "lookup"
                      /\ effects' = effects \cup {"existsSync", "exec"}
                      /\ UNCHANGED location
    /\ UNCHANGED <<env, platform, appPath, files, globalCli, envOverride,
                   clock, start, wake, loggedWaiting, notices>>
    /\ UNCHANGED nonCliVars

\* the rest of the pass that logs the notice on every miss
globalLookupDone_logsEveryMiss ==
    /\ cliPc = "lookup"
    /\ \E d \in LookupDurations : clock' = clock + d
    /\ LET global == getGlobalSupabaseCli(globalCli)
       IN IF global # None
          THEN /\ location' = global[1]
               /\ cliPc' = "returned"
               /\ UNCHANGED <<loggedWaiting, notices, wake, effects>>
          ELSE /\ notices' = notices + 1
               /\ loggedWaiting' = loggedWaiting
               /\ wake' = clock' + SUPABASE_CLI_POLL_INTERVAL_MS
               /\ effects' = effects \cup {"sleep"}
               /\ cliPc' = "sleeping"
               /\ UNCHANGED location
    /\ UNCHANGED <<env, platform, appPath, files, globalCli, envOverride,
                   start>>
    /\ UNCHANGED nonCliVars

\* the rest of the pass: the global lookup has finished; return its
\* location, or log the notice once and call sleep
globalLookupDone ==
    /\ cliPc = "lookup"
    /\ \E d \in LookupDurations : clock' = clock + d
    /\ LET global == getGlobalSupabaseCli(globalCli)
       IN IF global # None
          THEN /\ location' = global[1]
               /\ cliPc' = "returned"
               /\ UNCHANGED <<loggedWaiting, notices, wake, effects>>
          ELSE /\ notices' = IF loggedWaiting THEN notices ELSE notices + 1
               /\ loggedWaiting' = TRUE
               /\ wake' = clock' + SUPABASE_CLI_POLL_INTERVAL_MS
               /\ effects' = effects \cup {"sleep"}
               /\ cliPc' = "sleeping"
               /\ UNCHANGED location
    /\ UNCHANGED <<env, platform, appPath, files, globalCli, envOverride,
                   start>>
    /\ UNCHANGED nonCliVars

\* the timer of sleep() fires, at its deadline or late
sleepDone ==
    /\ cliPc = "sleeping"
    /\ \E late \in TimerLateness : clock' = wake + late
    /\ cliPc' = "loop"
    /\ UNCHANGED <<env, platform, appPath, files, globalCli, envOverride,
                   start, wake, loggedWaiting, notices, effects, location>>
    /\ UNCHANGED nonCliVars

Waiting == cliPc \in {"loop", "lookup", "sleeping"}

\* the environment while the call waits: the variable is set, the package
\* manager finishes installing the project-local binary, a global install
\* appears on the PATH
setEnv ==
    /\ Waiting
    /\ env = None
    /\ env' = Some(<<"/x/y">>)
    /\ UNCHANGED <<platform, appPath, files, globalCli, cliPc, envOverride,
                   clock, start, wake, loggedWaiting, notices, effects,
                   location>>
    /\ UNCHANGED nonCliVars

installLocal ==
    /\ Waiting
    /\ \E b \in BinNames :
          /\ BinPath(appPath, b) \notin files
          /\ files' = files \cup {BinPath(appPath, b)}
    /\ UNCHANGED <<env, platform, appPath, globalCli, cliPc, envOverride,
                   clock, start, wake, loggedWaiting, notices, effects,
                   location>>
    /\ UNCHANGED nonCliVars

installGlobal ==
    /\ Waiting
    /\ globalCli \in GlobalNotFound
    /\ globalCli' = [ok |-> TRUE, stdout |-> <<"/usr/bin/supabase", "\n">>]
    /\ UNCHANGED <<env, platform, appPath, files, cliPc, envOverride,
                   clock, start, wake, loggedWaiting, notices, effects,
                   location>>
    /\ UNCHANGED nonCliVars

CliStep ==
    \/ waitForSupabaseCli
    \/ loopIteration
    \/ globalLookupDone
    \/ sleepDone

NextCli ==
    \/ waitForSupabaseCli
    \/ loopIteration
    \/ globalLookupDone
    \/ sleepDone
    \/ setEnv
    \/ installLocal
    \/ installGlobal

\* a project-local binary that getLocalSupabaseCli looks for exists
LocalInstalled ==
    IF platform = "win32"
    THEN \/ BinPath(appPath, "supabase.cmd") \in files
         \/ BinPath(appPath, "supabase.exe") \in files
    ELSE BinPath(appPath, "supabase") \in files

\* the global lookup command finds a binary on the PATH
GlobalInstalled == globalCli \in GlobalFound

\* the environment variable holds something else than whitespace
OverrideSet == env # None /\ \E k \in 1..Len(env[1]) : env[1][k] \notin Whitespace

BeforeCeiling == clock - start < 300000

\* the call makes a pass of the loop before the ceiling / ends its lookup
Pass == cliPc = "loop" /\ cliPc' # "loop" /\ BeforeCeiling
LookupEnds == cliPc = "lookup" /\ cliPc' # "lookup"

Returns(src) ==
    /\ cliPc' = "returned"
    /\ location'.kind = "location"
    /\ location'.source = src

\* C15 (as stated): every pass of the loop runs the three checks, so a pass
\* made while the variable is set returns the override, a pass made while
\* the project-local binary exists returns it, and a lookup that finds a
\* global install returns it.
C15_ThreeChecksEachIteration ==
    [][/\ (Pass /\ OverrideSet) => Returns("env")
       /\ (Pass /\ ~OverrideSet /\ LocalInstalled)
             => Returns("local")
       /\ (LookupEnds /\ GlobalInstalled) => Returns("global")]_vars

\* C15 (amended): every pass of the loop runs the project-local check and,
\* when that misses, the global lookup, so an install that appears while the
\* call waits is returned by the next pass; the environment variable is read
\* once, before the loop, and a value set while the call waits is not used.
C15_InstallChecksEachIteration ==
    [][/\ (Pass /\ LocalInstalled)
             => (Returns("local") /\ location'.rawPath \in files)
       /\ (LookupEnds /\ GlobalInstalled) => Returns("global")
       /\ cliPc # "idle" =>
             /\ envOverride' = envOverride
             /\ (location' # location => location'.kind = "error"
                                         \/ location'.source # "env")]_vars

\* the variable was set and a binary installed while the call was waiting:
\* the call returned the binary
C15_Witness ==
    /\ cliPc = "returned"
    /\ loggedWaiting
    /\ location.source \in {"local", "global"}
    /\ OverrideSet
    /\ envOverride = None

\* C16: a call made with the override set returns it (source env) whatever
\* is installed; a pass that finds the project-local binary returns it
\* (source local) whether or not a global install exists; a global install
\* is returned only by a lookup started after the override was found unset
\* and the project-local check missed.
C16_Priority ==
    [][/\ (cliPc = "idle" /\ cliPc' # "idle" /\ OverrideSet) => Returns("env")
       /\ (cliPc = "idle" /\ cliPc' # "idle" /\ ~OverrideSet) => cliPc' = "loop"
       /\ (Pass /\ LocalInstalled) => Returns("local")
       /\ (cliPc = "loop" /\ cliPc' = "lookup") =>
             (~LocalInstalled /\ envOverride \in {None, Some(<<>>)})
       /\ (location' # location /\ location'.kind = "location") =>
             \/ location'.source = "env" /\ cliPc = "idle"
             \/ location'.source = "local" /\ cliPc = "loop" /\ LocalInstalled
             \/ /\ location'.source = "global"
                /\ cliPc = "lookup"
                /\ GlobalInstalled]_vars

\* the project-local binary was returned although a global install exists
C16_Witness ==
    /\ cliPc = "returned"
    /\ location.source = "local"
    /\ GlobalInstalled
    /\ ~loggedWaiting

C18_FailsAtCeiling ==
    /\ [](/\ cliPc = "sleeping" => wake = clock + 1000
          /\ cliPc = "failed" =>
                (location = CliNotFound /\ clock - start >= 300000)
          /\ location.kind = "error" => cliPc = "failed"
          /\ cliPc = "lookup" => BeforeCeiling)
    /\ [][(cliPc = "loop" /\ cliPc' # "loop" /\ ~BeforeCeiling)
             => cliPc' = "failed"]_vars
    /\ <>(cliPc \in {"returned", "failed"})

\* the call failed after waiting the five minutes out
C18_Witness ==
    /\ cliPc = "failed"
    /\ location = CliNotFound
    /\ clock - start >= 300000
    /\ "sleep" \in effects

\* C19: the notice has been logged once if some pass has found no location
\* and not at all otherwise, however many passes have been made.
C19_NoticeOnce ==
    notices = (IF "sleep" \in effects THEN 1 ELSE 0)

\* three passes or more have missed and the notice was logged once
C19_Witness ==
    /\ clock - start >= 3000
    /\ cliPc = "loop"
    /\ notices = 1

CliAtRest ==
    /\ env = None
    /\ appPath = <<"/app">>
    /\ files = {}
    /\ globalCli = [ok |-> FALSE, stdout |-> <<>>]
    /\ cliPc = "returned"
    /\ envOverride = None
    /\ clock = 0
    /\ start = 0
    /\ wake = 0
    /\ loggedWaiting = FALSE
    /\ notices = 0
    /\ effects = {}
    /\ location = NoLocation

CliIdle ==
    /\ platform = "linux"
    /\ CliAtRest

-----------------------------------------------------------------------------
(* quoteCommand on its own *)

Alphabet == {"a", " ", DQ, BS}

RECURSIVE StringsUpTo(_)
StringsUpTo(n) ==
    IF n = 0 THEN {<<>>}
    ELSE LET shorter == StringsUpTo(n - 1)
         IN shorter \cup {Append(s, c) : s \in {t \in shorter : Len(t) = n - 1},
                                         c \in Alphabet}

InitQuote ==
    /\ command \in StringsUpTo(MaxLen)
    /\ quoted = None

callQuoteCommand ==
    /\ quoted = None
    /\ quoted' = Some(quoteCommand(command))
    /\ UNCHANGED command
    /\ UNCHANGED nonQuoteVars

NextQuote == callQuoteCommand

\* number of double quotes of s
RECURSIVE CountQuotes(_)
CountQuotes(s) ==
    IF s = <<>> THEN 0
    ELSE (IF Head(s) = DQ THEN 1 ELSE 0) + CountQuotes(Tail(s))

\* every double quote of s has a backslash right before it
AllQuotesEscaped(s) ==
    \A k \in 1..Len(s) : s[k] = DQ => (k > 1 /\ s[k - 1] = BS)

\* s is t between a pair of double quotes
Wrapped(s, t) == s = <<DQ>> \o t \o <<DQ>>

\* C20: the quoted value is the command with a backslash put before every
\* double quote and nothing else changed, between a pair of double quotes
\* exactly when the command contains whitespace; a command with neither
\* whitespace nor double quotes comes back unchanged.
C20_QuoteCommand ==
    quoted # None =>
        LET out == quoted[1]
            inner == IF HasWhitespace(command)
                     THEN SubSeq(out, 2, Len(out) - 1) ELSE out
        IN /\ HasWhitespace(command) <=> (Len(out) >= 2 /\ Wrapped(out, inner))
           /\ Len(inner) = Len(command) + CountQuotes(command)
           /\ AllQuotesEscaped(inner)
           /\ CountQuotes(inner) = CountQuotes(command)
           /\ \A k \in 1..Len(command) :
                 LET at == k + CountQuotes(SubSeq(command, 1, k))
                 IN inner[at] = command[k]
           /\ (~HasWhitespace(command) /\ ~Includes(command, DQ)) =>
                 out = command

\* a command with whitespace and two double quotes has been quoted
C20_Witness ==
    /\ quoted # None
    /\ HasWhitespace(command)
    /\ CountQuotes(command) = 2
    /\ Len(quoted[1]) = Len(command) + 4

QuoteIdle ==
    /\ command = <<>>
    /\ quoted = None

-----------------------------------------------------------------------------
(* Deployment pipeline: deploySupabaseFunctions / serveSupabaseFunction *)
(* One call of either function; its getSupabaseClient call is caller 1 of  *)
(* the token manager, its waitForSupabaseCli call the call of the CLI      *)
(* locator, its runSupabaseServeCommand call the run of the supervisor.    *)

Ops == {"deploy", "serve", "name"}

EnvNames == {"PATH", "SUPABASE_ACCESS_TOKEN"}

\* the arguments of the call, and process.env without SUPABASE_CLI_PATH at
\* the time of the call (name -> value, None when not set)
Calls ==
    {[args |-> [functionName |-> <<"hello-world">>,
                supabaseProjectId |-> <<"project-ref">>],
      processEnv |-> [n \in EnvNames |->
                        IF n = "PATH" THEN Some(<<"/usr/bin">>) ELSE None]],
     [args |-> [functionName |-> <<"fn2">>,
                supabaseProjectId |-> <<"abcdefghijklmnopqrst">>],
      processEnv |-> [n \in EnvNames |->
                        IF n = "PATH" THEN Some(<<"/usr/bin">>)
                        ELSE Some(<<"stale-token">>)]]}

\* the text of the access tokens 0, 1, ...
TokenStrings == <<"token-0", "token-1", "token-2", "token-3">>
TokenText(k) == <<TokenStrings[k + 1]>>

\* the credential records the call may find: none, a fresh one, a stale one,
\* a stale one without refresh token, one without expiry
FlowSettings ==
    {[accessToken |-> None, refreshToken |-> None, expiresIn |-> None,
      tokenTimestamp |-> None],
     [accessToken |-> Some(0), refreshToken |-> Some(0),
      expiresIn |-> Some(3600), tokenTimestamp |-> Some(InitNow - 60)],
     [accessToken |-> Some(0), refreshToken |-> Some(0),
      expiresIn |-> Some(3600), tokenTimestamp |-> Some(InitNow - 4000)],
     [accessToken |-> Some(0), refreshToken |-> None,
      expiresIn |-> Some(3600), tokenTimestamp |-> Some(InitNow - 4000)],
     [accessToken |-> Some(0), refreshToken |-> Some(0), expiresIn |-> None,
      tokenTimestamp |-> None]}

InitFlow ==
    /\ flowOp \in Ops
    /\ flowPc = "idle"
    /\ isTestBuild \in BOOLEAN
    /\ \E c \in Calls : args = c.args /\ processEnv = c.processEnv
    /\ spawns = <<>>
    /\ flowResult = [kind |-> "pending"]
    \* the store, the lock and the refresh endpoint
    /\ settings \in FlowSettings
    /\ now = InitNow
    /\ lockHolder = 0
    /\ pc = [i \in Callers |-> "idle"]
    /\ atStart = [i \in Callers |-> NoStart]
    /\ waited = [i \in Callers |-> FALSE]
    /\ result = [i \in Callers |-> [kind |-> "pending"]]
    /\ exchanges = <<>>
    \* the machine the CLI is looked for on
    /\ env \in {None, Some(<<"/x/y">>)}
    /\ platform = "linux"
    /\ appPath \in AppPaths
    /\ files \in {{}, {BinPath(appPath, "supabase")}}
    /\ globalCli \in {[ok |-> FALSE, stdout |-> <<>>],
                      [ok |-> TRUE, stdout |-> <<"/usr/bin/supabase", "\n">>]}
    /\ cliPc = "idle"
    /\ envOverride = None
    /\ clock = 0
    /\ start = 0
    /\ wake = 0
    /\ loggedWaiting = FALSE
    /\ notices = 0
    /\ effects = {}
    /\ location = NoLocation

FlowReturn ==
    /\ flowPc' = "returned"
    /\ flowResult' = [kind |-> "ok"]

FlowThrow(err) ==
    /\ flowPc' = "failed"
    /\ flowResult' = [kind |-> "error", error |-> err]

\* the deploy command with the access token as an option
DeployCommand_withToken(cli, a, token) ==
    cli.command \o <<" ", "functions", " ", "deploy", " ">> \o a.functionName
    \o <<" ", "--project-ref", " ">> \o a.supabaseProjectId
    \o <<" ", "--no-verify-jwt", " ", "--token", " ">> \o token

\* `${cli.command} functions deploy ${functionName} --project-ref
\* ${supabaseProjectId} --no-verify-jwt`
DeployCommand(cli, a, token) ==
    cli.command \o <<" ", "functions", " ", "deploy", " ">> \o a.functionName
    \o <<" ", "--project-ref", " ">> \o a.supabaseProjectId
    \o <<" ", "--no-verify-jwt">>

\* `${cli.command} functions serve ${functionName} --no-verify-jwt`
ServeCommand(cli, a) ==
    cli.command \o <<" ", "functions", " ", "serve", " ">> \o a.functionName
    \o <<" ", "--no-verify-jwt">>

\* process.env as a whole: name -> value, None when not set
AllEnvNames == EnvNames \cup {"SUPABASE_CLI_PATH"}
WholeProcessEnv ==
    [n \in AllEnvNames |-> IF n = "SUPABASE_CLI_PATH" THEN env
                           ELSE processEnv[n]]

\* the child environment made of the access token alone
ChildEnv_tokenOnly(token) ==
    [n \in AllEnvNames |-> IF n = "SUPABASE_ACCESS_TOKEN" THEN Some(token)
                           ELSE None]

\* Object.fromEntries(Object.entries(process.env).filter(string-valued))
\* followed by env.SUPABASE_ACCESS_TOKEN = accessToken
ChildEnv(token) ==
    [n \in AllEnvNames |-> IF n = "SUPABASE_ACCESS_TOKEN" THEN Some(token)
                           ELSE WholeProcessEnv[n]]

flowFrame == <<flowOp, isTestBuild, args, processEnv>>

\* deploySupabaseFunctions is called: the log line, then getSupabaseClient()
deploySupabaseFunctions ==
    /\ flowOp = "deploy"
    /\ flowPc = "idle"
    /\ flowPc' = "token"
    /\ UNCHANGED <<flowFrame, spawns, flowResult>>
    /\ UNCHANGED <<tokenVars, serveVars, cliVars, quoteVars, bundleVars, moreVars>>

\* the first synchronous block of that getSupabaseClient call
deployGetSupabaseClient ==
    /\ flowPc = "token"
    /\ getSupabaseClient(1)

\* deploySupabaseFunctions that goes on to the CLI whatever the token call
\* gave
deployTokenSettled_ignoresFailure ==
    /\ flowPc = "token"
    /\ pc[1] = "done"
    /\ IF isTestBuild
         THEN FlowReturn
         ELSE flowPc' = "cli" /\ UNCHANGED flowResult
    /\ UNCHANGED <<flowFrame, spawns>>
    /\ UNCHANGED <<tokenVars, serveVars, cliVars, quoteVars, bundleVars, moreVars>>

\* the await of getSupabaseClient() is over: the rejection propagates, or
\* the access token is taken from the client; a test build returns here
deployTokenSettled ==
    /\ flowPc = "token"
    /\ pc[1] = "done"
    /\ IF result[1].kind = "error"
         THEN FlowThrow(result[1].error)
         ELSE IF isTestBuild
         THEN FlowReturn
         ELSE flowPc' = "cli" /\ UNCHANGED flowResult
    /\ UNCHANGED <<flowFrame, spawns>>
    /\ UNCHANGED <<tokenVars, serveVars, cliVars, quoteVars, bundleVars, moreVars>>

\* the first synchronous block of waitForSupabaseCli(appPath)
flowWaitForSupabaseCli ==
    /\ flowPc = "cli"
    /\ waitForSupabaseCli

\* the await of waitForSupabaseCli is over: its rejection propagates, or
\* the environment is built and simpleSpawn is called
deployCliSettled ==
    /\ flowOp = "deploy"
    /\ flowPc = "cli"
    /\ cliPc \in {"returned", "failed"}
    /\ IF cliPc = "failed"
         THEN /\ FlowThrow(location.error)
              /\ UNCHANGED spawns
         ELSE /\ spawns' = Append(spawns,
                    [via |-> "simpleSpawn",
                     command |-> DeployCommand(location, args,
                                     TokenText(result[1].accessToken)),
                     cwd |-> appPath,
                     env |-> Some(ChildEnv(TokenText(result[1].accessToken)))])
              /\ flowPc' = "spawned"
              /\ UNCHANGED flowResult
    /\ UNCHANGED flowFrame
    /\ UNCHANGED <<tokenVars, serveVars, cliVars, quoteVars, bundleVars, moreVars>>

\* the promise of simpleSpawn settles: resolved when the command exits with
\* code 0, rejected on any other exit code or when it cannot be started
simpleSpawnSettles ==
    /\ flowPc = "spawned"
    /\ \/ FlowReturn
       \/ \E failure \in {"Failed to deploy Supabase function (exit code 1)",
                           "Failed to deploy Supabase function (spawn error)"} :
             FlowThrow(failure)
    /\ UNCHANGED <<flowFrame, spawns>>
    /\ UNCHANGED <<tokenVars, serveVars, cliVars, quoteVars, bundleVars, moreVars>>

\* serveSupabaseFunction that asks for a client first
serveSupabaseFunction_withToken ==
    /\ flowOp = "serve"
    /\ flowPc = "idle"
    /\ flowPc' = "token"
    /\ UNCHANGED <<flowFrame, spawns, flowResult>>
    /\ UNCHANGED <<tokenVars, serveVars, cliVars, quoteVars, bundleVars, moreVars>>

\* serveSupabaseFunction is called: the log line; a test build returns
serveSupabaseFunction ==
    /\ flowOp = "serve"
    /\ flowPc = "idle"
    /\ IF isTestBuild
         THEN FlowReturn
         ELSE flowPc' = "cli" /\ UNCHANGED flowResult
    /\ UNCHANGED <<flowFrame, spawns>>
    /\ UNCHANGED <<tokenVars, serveVars, cliVars, quoteVars, bundleVars, moreVars>>

\* the await of waitForSupabaseCli is over: its rejection propagates, or
\* runSupabaseServeCommand is called and its promise executor runs
serveCliSettled ==
    /\ flowOp = "serve"
    /\ flowPc = "cli"
    /\ cliPc \in {"returned", "failed"}
    /\ IF cliPc = "failed"
         THEN /\ FlowThrow(location.error)
              /\ UNCHANGED <<spawns, serveVars>>
         ELSE /\ spawns' = Append(spawns,
                    [via |-> "spawn",
                     command |-> ServeCommand(location, args),
                     cwd |-> appPath,
                     env |-> None])
              /\ flowPc' = "serving"
              /\ UNCHANGED flowResult
              /\ elapsed' = 0
              /\ child' \in {"running", "spawnFailed"}
              /\ childKilled' = FALSE
              /\ exitInfo' = [code |-> None, signal |-> None, cause |-> "none"]
              /\ gracefulArmed' = TRUE
              /\ forceArmed' = TRUE
              /\ killCalls' = <<>>
              /\ delivered' = <<>>
              /\ stdout' = <<>>
              /\ stderr' = <<>>
              /\ settled' = "pending"
              /\ errorMessage' = None
    /\ UNCHANGED flowFrame
    /\ UNCHANGED <<tokenVars, cliVars, quoteVars, bundleVars, moreVars>>

\* the await of runSupabaseServeCommand is over
serveSettled ==
    /\ flowPc = "serving"
    /\ settled # "pending"
    /\ IF settled = "resolved"
         THEN FlowReturn
         ELSE FlowThrow("Failed to serve Supabase function")
    /\ UNCHANGED <<flowFrame, spawns>>
    /\ UNCHANGED <<tokenVars, serveVars, cliVars, quoteVars, bundleVars, moreVars>>

\* what supabase.getProjects() may resolve with: undefined, or a list
ProjectLists ==
    {None,
     Some(<<>>),
     Some(<<[id |-> <<"other">>, name |-> <<"Other">>]>>),
     Some(<<[id |-> <<"other">>, name |-> <<"Other">>],
            [id |-> <<"project-ref">>, name |-> <<"My Project">>]>>),
     Some(<<[id |-> <<"abcdefghijklmnopqrst">>, name |-> <<>>]>>)}

\* projects?.find((p) => p.id === projectId): the first match, or None
RECURSIVE Find(_, _)
Find(projects, projectId) ==
    IF projects = <<>> THEN None
    ELSE IF Head(projects).id = projectId THEN Some(Head(projects))
    ELSE Find(Tail(projects), projectId)

\* `<project not found for: ${projectId}>`
Placeholder(projectId) == <<"<project not found for: ">> \o projectId \o <<">">>

\* project?.name || `<project not found for: ${projectId}>`
ProjectName(projects, projectId) ==
    LET project == IF projects = None THEN None
                   ELSE Find(projects[1], projectId)
    IN IF project # None /\ project[1].name # <<>> THEN project[1].name
       ELSE Placeholder(projectId)

FlowReturnValue(v) ==
    /\ flowPc' = "returned"
    /\ flowResult' = [kind |-> "ok", value |-> v]

\* getSupabaseProjectName is called
getSupabaseProjectName ==
    /\ flowOp = "name"
    /\ flowPc = "idle"
    /\ IF isTestBuild
         THEN FlowReturnValue(<<"Fake Supabase Project">>)
         ELSE flowPc' = "nameToken" /\ UNCHANGED flowResult
    /\ UNCHANGED <<flowFrame, spawns>>
    /\ UNCHANGED <<tokenVars, serveVars, cliVars, quoteVars, bundleVars, moreVars>>

\* const supabase = await getSupabaseClient()
nameGetSupabaseClient ==
    /\ flowPc = "nameToken"
    /\ getSupabaseClient(1)

\* getSupabaseClient has settled: its error leaves the function, its
\* client is asked for the projects
nameTokenSettled ==
    /\ flowPc = "nameToken"
    /\ pc[1] = "done"
    /\ IF result[1].kind = "error"
         THEN FlowThrow(result[1].error)
         ELSE flowPc' = "projects" /\ UNCHANGED flowResult
    /\ UNCHANGED <<flowFrame, spawns>>
    /\ UNCHANGED <<tokenVars, serveVars, cliVars, quoteVars, bundleVars, moreVars>>

\* await supabase.getProjects() settles: its error leaves the function, its
\* list is searched for the project
getProjectsSettles ==
    /\ flowPc = "projects"
    /\ \/ FlowThrow("Failed to fetch projects")
       \/ \E projects \in ProjectLists :
             FlowReturnValue(ProjectName(projects, args.supabaseProjectId))
    /\ UNCHANGED <<flowFrame, spawns>>
    /\ UNCHANGED <<tokenVars, serveVars, cliVars, quoteVars, bundleVars, moreVars>>

NextFlow ==
    \/ deploySupabaseFunctions
    \/ deployGetSupabaseClient
    \/ refreshSupabaseToken(1)
    \/ refreshFails(1)
    \/ refreshSucceeds(1)
    \/ rereadSettings(1)
    \/ deployTokenSettled
    \/ flowWaitForSupabaseCli
    \/ loopIteration
    \/ globalLookupDone
    \/ sleepDone
    \/ deployCliSettled
    \/ simpleSpawnSettles
    \/ serveSupabaseFunction
    \/ serveCliSettled
    \/ NextServe
    \/ serveSettled
    \/ getSupabaseProjectName
    \/ nameGetSupabaseClient
    \/ nameTokenSettled
    \/ getProjectsSettles

\* the getSupabaseClient call of the flow gave a client
TokenObtained == pc[1] = "done" /\ result[1].kind = "client"

\* the CLI locator has been entered
CliEntered == cliPc # "idle" \/ effects # {}

\* C21: the CLI locator is entered only after getSupabaseClient has given a
\* client, and a child is spawned only after the locator has returned; when
\* getSupabaseClient fails the call fails with that error, the locator is
\* never entered and nothing is spawned.
C21_TokenThenCliThenSpawn ==
    flowOp = "deploy" =>
        /\ CliEntered => TokenObtained
        /\ spawns # <<>> => (TokenObtained /\ cliPc = "returned")
        /\ (pc[1] = "done" /\ result[1].kind = "error") =>
              /\ ~CliEntered
              /\ spawns = <<>>
              /\ flowPc \in {"token", "failed"}
              /\ flowPc = "failed" =>
                    flowResult = [kind |-> "error", error |-> result[1].error]

\* the refresh exchange failed: the deploy failed with that error, without
\* looking for the CLI and without a child
C21_Witness ==
    /\ flowOp = "deploy"
    /\ flowPc = "failed"
    /\ Len(exchanges) = 1
    /\ exchanges[1].status = "failed"
    /\ flowResult = [kind |-> "error", error |-> result[1].error]
    /\ cliPc = "idle"
    /\ spawns = <<>>

\* C22: the command of every deploy spawn is the command of the located CLI
\* followed by " functions deploy <functionName> --project-ref <projectId>
\* --no-verify-jwt" and nothing else; the text of the access token is no
\* piece of it; the token is the SUPABASE_ACCESS_TOKEN of the environment
\* given to the child.
C22_DeployCommand ==
    \A k \in 1..Len(spawns) :
        spawns[k].via = "simpleSpawn" =>
            LET token == TokenText(result[1].accessToken)
                cmd == spawns[k].command
                n == Len(location.command)
            IN /\ Len(cmd) = n + 10 + Len(args.functionName)
                                + Len(args.supabaseProjectId)
               /\ SubSeq(cmd, 1, n) = location.command
               /\ SubSeq(cmd, n + 1, Len(cmd)) =
                     <<" ", "functions", " ", "deploy", " ">>
                     \o args.functionName
                     \o <<" ", "--project-ref", " ">>
                     \o args.supabaseProjectId
                     \o <<" ", "--no-verify-jwt">>
               /\ \A j \in 1..Len(cmd) : <<cmd[j]>> # token
               /\ spawns[k].env # None
               /\ spawns[k].env[1]["SUPABASE_ACCESS_TOKEN"] = Some(token)

\* hello-world deployed to project-ref with the refreshed token
C22_Witness ==
    /\ Len(spawns) = 1
    /\ spawns[1].command =
          <<"/x/y", " ", "functions", " ", "deploy", " ", "hello-world", " ",
            "--project-ref", " ", "project-ref", " ", "--no-verify-jwt">>
    /\ spawns[1].env[1]["SUPABASE_ACCESS_TOKEN"] = Some(<<"token-1">>)

\* C23: the environment given to the deploy child has, for every variable
\* other than SUPABASE_ACCESS_TOKEN, the value (or absence) it has in
\* process.env, and SUPABASE_ACCESS_TOKEN is the access token of the client
\* returned by getSupabaseClient; process.env itself never changes.
C23_ChildEnvironment ==
    /\ [](\A k \in 1..Len(spawns) :
             spawns[k].via = "simpleSpawn" =>
                 /\ spawns[k].env # None
                 /\ DOMAIN spawns[k].env[1] = AllEnvNames
                 /\ \A n \in EnvNames \ {"SUPABASE_ACCESS_TOKEN"} :
                       spawns[k].env[1][n] = processEnv[n]
                 /\ spawns[k].env[1]["SUPABASE_CLI_PATH"] = env
                 /\ spawns[k].env[1]["SUPABASE_ACCESS_TOKEN"] =
                       Some(TokenText(result[1].accessToken)))
    /\ [][processEnv' = processEnv /\ env' = env]_vars

\* the caller had an older SUPABASE_ACCESS_TOKEN of its own: the child got
\* the stored token, the caller kept its own
C23_Witness ==
    /\ Len(spawns) = 1
    /\ spawns[1].via = "simpleSpawn"
    /\ spawns[1].env[1]["SUPABASE_ACCESS_TOKEN"] = Some(<<"token-0">>)
    /\ processEnv["SUPABASE_ACCESS_TOKEN"] = Some(<<"stale-token">>)
    /\ spawns[1].env[1]["PATH"] = Some(<<"/usr/bin">>)
    /\ spawns[1].env[1]["SUPABASE_CLI_PATH"] = Some(<<"/x/y">>)

\* C24: in a serve call no getSupabaseClient call is ever started, the lock
\* is never taken, no exchange is made and the store never changes; the
\* command it spawns is the command of the located CLI followed by
\* " functions serve <functionName> --no-verify-jwt".
C24_ServeNeedsNoToken ==
    /\ [](flowOp = "serve" =>
             /\ \A i \in Callers : pc[i] = "idle" /\ atStart[i] = NoStart
             /\ lockHolder = 0
             /\ exchanges = <<>>
             /\ \A k \in 1..Len(spawns) :
                   /\ spawns[k].via = "spawn"
                   /\ spawns[k].env = None
                   /\ spawns[k].command =
                         location.command
                         \o <<" ", "functions", " ", "serve", " ">>
                         \o args.functionName
                         \o <<" ", "--no-verify-jwt">>)
    /\ [][flowOp = "serve" => settings' = settings]_vars

\* served from a project-local CLI under a path with a space, with no
\* credentials on record at all
C24_Witness ==
    /\ flowOp = "serve"
    /\ flowPc = "returned"
    /\ settings.accessToken = None
    /\ Len(spawns) = 1
    /\ spawns[1].command =
          <<DQ, "/my", " ", "app", "/node_modules/.bin/", "supabase", DQ,
            " ", "functions", " ", "serve", " ", "hello-world", " ",
            "--no-verify-jwt">>

\* C25: a call spawns at most once and its getSupabaseClient call makes at
\* most one exchange; a failed exchange settles getSupabaseClient with an
\* error, and once the call has failed it carries an error and nothing more
\* is spawned or exchanged.
C25_NoRetries ==
    /\ [](/\ Len(spawns) <= 1
          /\ \A i \in Callers : Cardinality(ExchangesBy(i)) <= 1
          /\ \A k \in 1..Len(exchanges) :
                (exchanges[k].status = "failed" /\ pc[exchanges[k].by] = "done")
                   => result[exchanges[k].by].kind = "error"
          /\ flowPc = "failed" => flowResult.kind = "error")
    /\ [][flowPc = "failed" =>
             /\ spawns' = spawns
             /\ exchanges' = exchanges
             /\ flowPc' = flowPc
             /\ flowResult' = flowResult]_vars

\* the deploy command exited with code 1 after a refresh: one spawn, one
\* exchange, one error
C25_Witness ==
    /\ flowOp = "deploy"
    /\ flowPc = "failed"
    /\ flowResult = [kind |-> "error",
                     error |-> "Failed to deploy Supabase function (exit code 1)"]
    /\ Len(spawns) = 1
    /\ Len(exchanges) = 1

\* C30: a getSupabaseProjectName call never fails: it returns a name or
\* the placeholder.
C30_LookupNeverFails ==
    flowOp = "name" => flowPc # "failed"

FlowIdle ==
    /\ flowOp = "deploy"
    /\ flowPc = "returned"
    /\ isTestBuild = FALSE
    /\ args = [functionName |-> <<"hello-world">>,
               supabaseProjectId |-> <<"project-ref">>]
    /\ processEnv = [n \in EnvNames |-> None]
    /\ spawns = <<>>
    /\ flowResult = [kind |-> "pending"]

-----------------------------------------------------------------------------
(* The bundler *)
(* An import specifier is a sequence of pieces; a piece is one of the      *)
(* characters . / \ : or a maximal run of other characters.                *)

Punctuation == {".", "/", BS, ":"}

\* path.sep
pathSep == IF platform = "win32" THEN BS ELSE "/"

\* value.replaceAll("\\", path.sep) left out: the value as it is
normalizePath_identity(value) == value

\* value.replaceAll("\\", path.sep)
normalizePath(value) ==
    [k \in 1..Len(value) |-> IF value[k] = BS THEN pathSep ELSE value[k]]

\* importPath.startsWith(c), c one of the characters . /
StartsWith(importPath, c) == Len(importPath) > 0 /\ importPath[1] = c

\* a run that is one letter, as isWindowsDeviceRoot asks of the first
\* character
DeviceRoots == {"C"}

\* path.isAbsolute(importPath)
pathIsAbsolute(importPath) ==
    IF platform = "win32"
    THEN /\ Len(importPath) > 0
         /\ \/ importPath[1] \in {"/", BS}
            \/ /\ Len(importPath) > 2
               /\ importPath[1] \in DeviceRoots
               /\ importPath[2] = ":"
               /\ importPath[3] \in {"/", BS}
    ELSE StartsWith(importPath, "/")

isRelativeOrAbsoluteImport(importPath) ==
    \/ StartsWith(importPath, ".")
    \/ StartsWith(importPath, "/")
    \/ pathIsAbsolute(importPath)

\* /^(https?:|npm:|jsr:)/.test(s)
externalImportPrefixes(s) ==
    /\ Len(s) >= 2
    /\ s[1] \in {"http", "https", "npm", "jsr"}
    /\ s[2] = ":"

\* what the resolve hook gives back
External(p) == [external |-> TRUE, path |-> p]
Undefined == [external |-> FALSE]

\* build.onResolve({ filter: /.*/ }, (args) => ...), args.path = path
onResolve(path) ==
    LET spec == normalizePath(path)
    IN IF externalImportPrefixes(spec) THEN External(spec)
       ELSE IF ~isRelativeOrAbsoluteImport(spec) THEN External(spec)
       ELSE Undefined

-----------------------------------------------------------------------------
(* The resolve hook on its own *)

SpecifierRuns == {"http", "https", "npm", "jsr", "C", "lib"}
SpecifierAlphabet == Punctuation \cup SpecifierRuns

RECURSIVE SpecifiersUpTo(_)
SpecifiersUpTo(n) ==
    IF n = 0 THEN {<<>>}
    ELSE LET shorter == SpecifiersUpTo(n - 1)
         IN shorter \cup
            {Append(s, c) : s \in {t \in shorter : Len(t) = n - 1},
                            c \in SpecifierAlphabet}

\* runs are maximal: no two of them stand side by side
MaximalRuns(s) ==
    \A k \in 1..(Len(s) - 1) :
        ~(s[k] \in SpecifierRuns /\ s[k + 1] \in SpecifierRuns)

InitResolve ==
    /\ specifier \in {s \in SpecifiersUpTo(MaxLen) : MaximalRuns(s)}
    /\ resolved = None

\* the engine meets an import and asks the hook
callOnResolve ==
    /\ resolved = None
    /\ resolved' = Some(onResolve(specifier))
    /\ UNCHANGED specifier
    /\ UNCHANGED <<bundleState, nonBundleVars>>

NextResolve == callOnResolve

\* the specifier with every backslash replaced by the path separator
Separated(s) == [k \in 1..Len(s) |-> IF s[k] = BS THEN pathSep ELSE s[k]]

\* s begins with http:, https:, npm: or jsr:
HasExternalPrefix(s) ==
    \E scheme \in {"http", "https", "npm", "jsr"} :
        Len(s) >= 2 /\ SubSeq(s, 1, 2) = <<scheme, ":">>

Inline(r) == r = [external |-> FALSE]
MarkedExternal(r) == r.external

\* C26: with n the specifier after its backslashes are replaced by the path
\* separator, the hook answers External when n begins with http:, https:,
\* npm: or jsr:, leaves the import to the engine (Inline) when n starts
\* with "." or is an absolute path, and answers External in every other
\* case.
C26_Classification ==
    resolved # None =>
        LET n == Separated(specifier)
            r == resolved[1]
        IN /\ HasExternalPrefix(n) => MarkedExternal(r)
           /\ (~HasExternalPrefix(n)
               /\ (StartsWith(n, ".") \/ pathIsAbsolute(n))) => Inline(r)
           /\ (~HasExternalPrefix(n) /\ ~StartsWith(n, ".")
               /\ ~pathIsAbsolute(n)) => MarkedExternal(r)

\* on POSIX \lib is /lib after normalization, an absolute path: Inline
C26_Witness ==
    /\ platform = "linux"
    /\ specifier = <<BS, "lib">>
    /\ resolved = Some(Undefined)

\* C27: the path the hook hands back for an external import is the
\* specifier as written in the source.
C27_ExternalUntouched ==
    (resolved # None /\ resolved[1].external) =>
        resolved[1].path = specifier

ResolveIdle ==
    /\ specifier = <<>>
    /\ resolved = None

-----------------------------------------------------------------------------
(* bundleSupabaseFunction *)

\* the two versions of the module: esbuild imported on first use, esbuild
\* imported with the module
Copies == {"lazy", "static"}

Modules == {"index", "helper", "greeting"}

\* the imports the sources may contain; to is the file the import names
Imports ==
    {[from |-> "index", to |-> "helper",
      specifier |-> <<".", "/", "helper", ".", "ts">>],
     [from |-> "helper", to |-> "greeting",
      specifier |-> <<".", ".", "/", "_shared", "/", "greeting", ".", "ts">>],
     [from |-> "greeting", to |-> "helper",
      specifier |-> <<".", ".", "/", "hello", "/", "helper", ".", "ts">>],
     [from |-> "index", to |-> "none",
      specifier |-> <<"npm", ":", "zod">>],
     [from |-> "helper", to |-> "none",
      specifier |-> <<"lodash">>],
     [from |-> "greeting", to |-> "none",
      specifier |-> <<"https", ":", "/", "/", "esm", ".", "sh", "/", "x">>]}

FunctionName == <<"hello">>

\* path.join(appPath, SUPABASE_FUNCTIONS_DIR, functionName) and
\* path.join(functionDir, "index.ts")
SUPABASE_FUNCTIONS_DIR == <<"supabase", pathSep, "functions">>
entryPoint ==
    appPath \o <<pathSep>> \o SUPABASE_FUNCTIONS_DIR \o <<pathSep>>
    \o FunctionName \o <<pathSep, "index.ts">>

EntryPointMissing ==
    [kind |-> "error",
     message |-> "must include an index.ts entry point. Expected file at",
     functionName |-> FunctionName,
     path |-> entryPoint]
BuildFailed == [kind |-> "error", message |-> "Build failed"]
BundleProducedNoOutput ==
    [kind |-> "error", message |-> "No output generated.",
     functionName |-> FunctionName]

InitBundle ==
    /\ copy \in Copies
    /\ sourceFiles \in SUBSET Modules
    /\ sources \in SUBSET Imports
    /\ emptyEntry \in BOOLEAN
    /\ esbuildModulePromise = (copy = "static")
    /\ buildCalls = 0
    /\ bundlePc = "idle"
    /\ pending = {}
    /\ inlined = {}
    /\ externals = {}
    /\ bundleResult = [kind |-> "pending"]

bundleFrame == <<copy, sourceFiles, sources, emptyEntry>>

\* bundleSupabaseFunction is called: fs.access(entryPoint) starts
bundleSupabaseFunction ==
    /\ bundlePc = "idle"
    /\ bundlePc' = "access"
    /\ UNCHANGED <<bundleFrame, esbuildModulePromise, buildCalls, pending,
                   inlined, externals, bundleResult>>
    /\ UNCHANGED <<resolveVars, nonBundleVars>>

\* fs.access settles and the call goes on to the build whatever it said
accessSettles_ignoresMissing ==
    /\ bundlePc = "access"
    /\ bundlePc' = IF copy = "lazy" THEN "load" ELSE "build"
    /\ UNCHANGED <<bundleFrame, esbuildModulePromise, buildCalls, pending,
                   inlined, externals, bundleResult>>
    /\ UNCHANGED <<resolveVars, nonBundleVars>>

\* fs.access settles: the catch block throws, or the call goes on
accessSettles ==
    /\ bundlePc = "access"
    /\ IF "index" \in sourceFiles
       THEN /\ bundlePc' = IF copy = "lazy" THEN "load" ELSE "build"
            /\ UNCHANGED bundleResult
       ELSE /\ bundlePc' = "failed"
            /\ bundleResult' = EntryPointMissing
    /\ UNCHANGED <<bundleFrame, esbuildModulePromise, buildCalls, pending,
                   inlined, externals>>
    /\ UNCHANGED <<resolveVars, nonBundleVars>>

\* const { build } = await loadEsbuild()
loadEsbuild ==
    /\ bundlePc = "load"
    /\ esbuildModulePromise' = TRUE
    /\ bundlePc' = "build"
    /\ UNCHANGED <<bundleFrame, buildCalls, pending, inlined, externals,
                   bundleResult>>
    /\ UNCHANGED <<resolveVars, nonBundleVars>>

\* build({ entryPoints: [entryPoint], bundle: true, write: false, ... })
callBuild ==
    /\ bundlePc = "build"
    /\ buildCalls' = buildCalls + 1
    /\ pending' = {"index"}
    /\ bundlePc' = "building"
    /\ UNCHANGED <<bundleFrame, esbuildModulePromise, inlined, externals,
                   bundleResult>>
    /\ UNCHANGED <<resolveVars, nonBundleVars>>

\* the imports of module m
ImportsOf(m) == {i \in sources : i.from = m}

\* the engine takes the entry file and follows none of its imports
buildStep_entryOnly ==
    /\ bundlePc = "building"
    /\ \E m \in pending :
          /\ inlined' = inlined \cup {m}
          /\ pending' = {}
          /\ UNCHANGED <<externals, bundlePc, bundleResult>>
    /\ UNCHANGED <<bundleFrame, esbuildModulePromise, buildCalls>>
    /\ UNCHANGED <<resolveVars, nonBundleVars>>

\* the engine reads one module: it asks the hook about each import, keeps
\* the imports the hook calls external under the path the hook gave, and
\* resolves the others itself; an import it cannot resolve fails the build
buildStep ==
    /\ bundlePc = "building"
    /\ \E m \in pending :
          LET ext == {i \in ImportsOf(m) : onResolve(i.specifier).external}
              own == ImportsOf(m) \ ext
          IN IF \E i \in own : i.to \notin sourceFiles
             THEN /\ bundlePc' = "failed"
                  /\ bundleResult' = BuildFailed
                  /\ UNCHANGED <<pending, inlined, externals>>
             ELSE /\ inlined' = inlined \cup {m}
                  /\ externals' =
                        externals \cup {onResolve(i.specifier).path : i \in ext}
                  /\ pending' =
                        (pending \cup {i.to : i \in own}) \ (inlined \cup {m})
                  /\ UNCHANGED <<bundlePc, bundleResult>>
    /\ UNCHANGED <<bundleFrame, esbuildModulePromise, buildCalls>>
    /\ UNCHANGED <<resolveVars, nonBundleVars>>

\* result.outputFiles?.[0]?.text: the code of the modules in the bundle
\* and the imports left in it
OutputText ==
    [code |-> IF emptyEntry THEN inlined \ {"index"} ELSE inlined,
     imports |-> externals]

\* !output: the empty string
EmptyText(text) == text.code = {} /\ text.imports = {}

\* build() settles with its one output file
buildSettles ==
    /\ bundlePc = "building"
    /\ pending = {}
    /\ IF EmptyText(OutputText)
       THEN /\ bundlePc' = "failed"
            /\ bundleResult' = BundleProducedNoOutput
       ELSE /\ bundlePc' = "returned"
            /\ bundleResult' = [kind |-> "text", text |-> OutputText]
    /\ UNCHANGED <<bundleFrame, esbuildModulePromise, buildCalls, pending,
                   inlined, externals>>
    /\ UNCHANGED <<resolveVars, nonBundleVars>>

NextBundle ==
    \/ bundleSupabaseFunction
    \/ accessSettles
    \/ loadEsbuild
    \/ callBuild
    \/ buildStep
    \/ buildSettles

\* the modules reached from S through imports the hook leaves to the engine
RECURSIVE ReachedFrom(_)
ReachedFrom(S) ==
    LET more == S \cup {i.to : i \in {j \in sources :
                                        /\ j.from \in S
                                        /\ ~onResolve(j.specifier).external}}
    IN IF more = S THEN S ELSE ReachedFrom(more)

\* the modules that hold code of their own
WithCode == IF emptyEntry THEN Modules \ {"index"} ELSE Modules

\* C28: the text bundleSupabaseFunction returns holds the code of exactly
\* the modules reachable from index.ts through Inline imports,
\* transitively, and no import of such a module that the hook leaves to
\* the engine, and no import starting with ".", is left in it.
C28_BundleInlinesReachable ==
    bundleResult.kind = "text" =>
        LET text == bundleResult.text
            reached == ReachedFrom({"index"})
        IN /\ text.code = reached \cap WithCode
           /\ \A i \in sources :
                 (i.from \in reached /\ ~onResolve(i.specifier).external)
                    => i.specifier \notin text.imports
           /\ \A p \in text.imports : ~StartsWith(p, ".")

\* index.ts -> ./helper.ts -> ../_shared/greeting.ts, with npm:zod left as
\* an import
C28_Witness ==
    /\ bundleResult.kind = "text"
    /\ bundleResult.text.code = {"index", "helper", "greeting"}
    /\ <<"npm", ":", "zod">> \in bundleResult.text.imports
    /\ \E i \in sources :
          /\ i.from = "helper"
          /\ i.specifier =
                <<".", ".", "/", "_shared", "/", "greeting", ".", "ts">>

\* C29: when index.ts does not exist the call fails with the
\* EntryPointMissing error and does nothing else: build() is never called,
\* the engine reads no module, and the call does not import esbuild (in
\* the version that imports esbuild with the module it was imported before
\* the call, in the other it is still not imported).
C29_MissingEntryFailsBeforeBuild ==
    /\ [](("index" \notin sourceFiles /\ bundlePc \notin {"idle", "access"}) =>
             /\ bundlePc = "failed"
             /\ bundleResult = EntryPointMissing
             /\ buildCalls = 0
             /\ inlined = {} /\ pending = {} /\ externals = {}
             /\ esbuildModulePromise = (copy = "static"))
    /\ []("index" \notin sourceFiles => bundlePc \notin {"load", "build",
                                                        "building"})

\* helper.ts is there but index.ts is not: the call has failed and esbuild
\* was never imported
C29_Witness ==
    /\ "index" \notin sourceFiles
    /\ "helper" \in sourceFiles
    /\ copy = "lazy"
    /\ bundlePc = "failed"
    /\ bundleResult = EntryPointMissing
    /\ ~esbuildModulePromise
    /\ buildCalls = 0

BundleIdle ==
    /\ copy = "lazy"
    /\ sourceFiles = {}
    /\ sources = {}
    /\ emptyEntry = FALSE
    /\ esbuildModulePromise = FALSE
    /\ buildCalls = 0
    /\ bundlePc = "idle"
    /\ pending = {}
    /\ inlined = {}
    /\ externals = {}
    /\ bundleResult = [kind |-> "pending"]

BundlerIdle == BundleIdle /\ ResolveIdle


\* the part that is not running keeps one fixed state
TokenIdle ==
    /\ settings = [accessToken |-> None, refreshToken |-> None,
                   expiresIn |-> None, tokenTimestamp |-> None]
    /\ now = InitNow
    /\ lockHolder = 0
    /\ pc = [i \in Callers |-> "idle"]
    /\ atStart = [i \in Callers |-> NoStart]
    /\ waited = [i \in Callers |-> FALSE]
    /\ result = [i \in Callers |-> [kind |-> "pending"]]
    /\ exchanges = <<>>

ServeIdle ==
    /\ elapsed = 0
    /\ child = "closed"
    /\ childKilled = FALSE
    /\ exitInfo = [code |-> None, signal |-> None, cause |-> "none"]
    /\ gracefulArmed = FALSE
    /\ forceArmed = FALSE
    /\ killCalls = <<>>
    /\ delivered = <<>>
    /\ stdout = <<>>
    /\ stderr = <<>>
    /\ settled = "pending"
    /\ errorMessage = None

\* the token manager under concurrent getSupabaseClient calls
-----------------------------------------------------------------------------
(* listSupabaseFunctionNames *)
(* A directory entry name is a sequence of characters.                     *)

\* the UTF-16 code unit of a character
CodeUnit(c) ==
    CASE c = "B" -> 66  [] c = "_" -> 95  [] c = "a" -> 97  [] c = "b" -> 98
      [] c = "d" -> 100 [] c = "e" -> 101 [] c = "h" -> 104 [] c = "l" -> 108
      [] c = "p" -> 112 [] c = "r" -> 114 [] c = "s" -> 115 [] c = "t" -> 116

\* a < b as the default comparison of Array.prototype.sort has it
RECURSIVE Before(_, _)
Before(a, b) ==
    IF b = <<>> THEN FALSE
    ELSE IF a = <<>> THEN TRUE
    ELSE IF Head(a) = Head(b) THEN Before(Tail(a), Tail(b))
    ELSE CodeUnit(Head(a)) < CodeUnit(Head(b))

\* names.sort(): insertion of each name at its place
RECURSIVE Insert(_, _)
Insert(x, sorted) ==
    IF sorted = <<>> THEN <<x>>
    ELSE IF Before(Head(sorted), x)
         THEN <<Head(sorted)>> \o Insert(x, Tail(sorted))
    ELSE <<x>> \o sorted

RECURSIVE Sort(_)
Sort(names) ==
    IF names = <<>> THEN <<>> ELSE Insert(Head(names), Sort(Tail(names)))

SUPABASE_SHARED_NAME == <<"_", "s", "h", "a", "r", "e", "d">>

EntryNames ==
    {<<"a", "l", "p", "h", "a">>, <<"b", "e", "t", "a">>, <<"B", "e", "t", "a">>,
     SUPABASE_SHARED_NAME}
EntryKinds == {"file", "directory"}

\* the sequences of up to n directory entries with different names
RECURSIVE DirentsUpTo(_)
DirentsUpTo(n) ==
    IF n = 0 THEN {<<>>}
    ELSE LET shorter == DirentsUpTo(n - 1)
             longest == {t \in shorter : Len(t) = n - 1}
             entry == [name : EntryNames, kind : EntryKinds]
         IN shorter \cup
            {Append(x[1], x[2]) :
                x \in {y \in longest \X entry :
                          \A j \in 1..Len(y[1]) : y[1][j].name # y[2].name}}

ReaddirErrors == {"ENOENT", "EACCES", "ENOTDIR"}

InitList ==
    /\ functionsDir \in
          {[kind |-> "entries", entries |-> e] : e \in DirentsUpTo(MaxEntries)}
          \cup {[kind |-> "error", code |-> c] : c \in ReaddirErrors}
    /\ listed = [kind |-> "pending"]

\* entries.filter((entry) => entry.isDirectory() && entry.name !== "_shared")
RECURSIVE FunctionDirectories(_)
FunctionDirectories(entries) ==
    IF entries = <<>> THEN <<>>
    ELSE (IF /\ Head(entries).kind = "directory"
             /\ Head(entries).name # SUPABASE_SHARED_NAME
          THEN <<Head(entries)>> ELSE <<>>)
         \o FunctionDirectories(Tail(entries))

EntryNamesOf(entries) == [k \in 1..Len(entries) |-> entries[k].name]

\* the call without its .sort()
listSupabaseFunctionNames_noSort ==
    /\ listed.kind = "pending"
    /\ IF functionsDir.kind = "entries"
         THEN listed' =
                 [kind |-> "ok",
                  names |-> EntryNamesOf(FunctionDirectories(
                                           functionsDir.entries))]
         ELSE IF functionsDir.code = "ENOENT"
         THEN listed' = [kind |-> "ok", names |-> <<>>]
         ELSE listed' = [kind |-> "error", code |-> functionsDir.code]
    /\ UNCHANGED functionsDir
    /\ UNCHANGED <<oldVars, pathVars, sanitizeVars, formatVars, hookVars, handlerVars>>

listSupabaseFunctionNames ==
    /\ listed.kind = "pending"
    /\ IF functionsDir.kind = "entries"
         THEN listed' =
                 [kind |-> "ok",
                  names |-> Sort(EntryNamesOf(FunctionDirectories(
                                                functionsDir.entries)))]
         ELSE IF functionsDir.code = "ENOENT"
         THEN listed' = [kind |-> "ok", names |-> <<>>]
         ELSE listed' = [kind |-> "error", code |-> functionsDir.code]
    /\ UNCHANGED functionsDir
    /\ UNCHANGED <<oldVars, pathVars, sanitizeVars, formatVars, hookVars, handlerVars>>

NextList == listSupabaseFunctionNames

\* C31: for a directory that can be read the call returns the names of its
\* entries that are directories and are not named _shared, each once, in
\* strictly ascending order; for a missing directory it returns the empty
\* list; for any other read error it fails with that error.
C31_ListsFunctionDirectories ==
    listed.kind # "pending" =>
        IF functionsDir.kind = "entries"
        THEN /\ listed.kind = "ok"
             /\ {listed.names[k] : k \in 1..Len(listed.names)} =
                   {functionsDir.entries[k].name :
                       k \in {j \in 1..Len(functionsDir.entries) :
                                 /\ functionsDir.entries[j].kind = "directory"
                                 /\ functionsDir.entries[j].name #
                                       <<"_", "s", "h", "a", "r", "e", "d">>}}
             /\ \A k \in 1..(Len(listed.names) - 1) :
                   Before(listed.names[k], listed.names[k + 1])
        ELSE IF functionsDir.code = "ENOENT"
        THEN listed = [kind |-> "ok", names |-> <<>>]
        ELSE listed = [kind |-> "error", code |-> functionsDir.code]

\* beta, _shared and alpha are directories, read in that order
C31_Witness ==
    /\ functionsDir.kind = "entries"
    /\ EntryNamesOf(functionsDir.entries) =
          <<<<"b", "e", "t", "a">>, SUPABASE_SHARED_NAME,
            <<"a", "l", "p", "h", "a">>>>
    /\ \A k \in 1..3 : functionsDir.entries[k].kind = "directory"
    /\ listed = [kind |-> "ok",
                 names |-> <<<<"a", "l", "p", "h", "a">>, <<"b", "e", "t", "a">>>>]

ListIdle ==
    /\ functionsDir = [kind |-> "error", code |-> "ENOENT"]
    /\ listed = [kind |-> "ok", names |-> <<>>]

-----------------------------------------------------------------------------
(* getSupabaseFunctionName, isServerFunction, isSupabaseSharedPath *)
(* A path is a sequence of pieces; a piece is one of the characters / \ .  *)
(* or a maximal run of other characters.                                   *)

Null == None

SUPABASE_FUNCTIONS_PREFIX == <<"supabase", "/", "functions", "/">>
SUPABASE_SHARED_DIRECTORY == "_shared"
SUPABASE_SHARED_PREFIX ==
    SUPABASE_FUNCTIONS_PREFIX \o <<SUPABASE_SHARED_DIRECTORY, "/">>

\* filePath.replaceAll("\\", "/") left out
normalizeToPosix_identity(p) == p

\* filePath.replaceAll("\\", "/")
normalizeToPosix(p) == [k \in 1..Len(p) |-> IF p[k] = BS THEN "/" ELSE p[k]]

\* s.startsWith(prefix), prefix ending in a "/"
StartsWithPrefix(s, prefix) ==
    Len(s) >= Len(prefix) /\ SubSeq(s, 1, Len(prefix)) = prefix

\* s.split("/")
RECURSIVE SplitSlash(_, _)
SplitSlash(s, segment) ==
    IF s = <<>> THEN <<segment>>
    ELSE IF Head(s) = "/" THEN <<segment>> \o SplitSlash(Tail(s), <<>>)
    ELSE SplitSlash(Tail(s), Append(segment, Head(s)))

\* segment.replace(/\.[^.]+$/, ""): a last dot followed by a run goes
StripExtension(segment) ==
    LET n == Len(segment)
    IN IF n >= 2 /\ segment[n - 1] = "." /\ segment[n] # "."
       THEN SubSeq(segment, 1, n - 2)
       ELSE segment

\* getSupabaseFunctionName without the test firstSegment === "_shared"
getSupabaseFunctionName_sharedIncluded(p) ==
    LET normalized == normalizeToPosix(p)
    IN IF ~StartsWithPrefix(normalized, SUPABASE_FUNCTIONS_PREFIX) THEN Null
       ELSE LET relativePath == SubSeq(normalized,
                                       Len(SUPABASE_FUNCTIONS_PREFIX) + 1,
                                       Len(normalized))
                segments == SplitSlash(relativePath, <<>>)
                firstSegment == segments[1]
            IN IF relativePath = <<>> THEN Null
               ELSE IF firstSegment = <<>> THEN Null
               ELSE IF Len(segments) = 1
               THEN LET baseName == StripExtension(firstSegment)
                    IN IF baseName = <<SUPABASE_SHARED_DIRECTORY>> THEN Null
                       ELSE Some(baseName)
               ELSE Some(firstSegment)

getSupabaseFunctionName(p) ==
    LET normalized == normalizeToPosix(p)
    IN IF ~StartsWithPrefix(normalized, SUPABASE_FUNCTIONS_PREFIX) THEN Null
       ELSE LET relativePath == SubSeq(normalized,
                                       Len(SUPABASE_FUNCTIONS_PREFIX) + 1,
                                       Len(normalized))
                segments == SplitSlash(relativePath, <<>>)
                firstSegment == segments[1]
            IN IF relativePath = <<>> THEN Null
               ELSE IF \/ firstSegment = <<>>
                       \/ firstSegment = <<SUPABASE_SHARED_DIRECTORY>>
               THEN Null
               ELSE IF Len(segments) = 1
               THEN LET baseName == StripExtension(firstSegment)
                    IN IF baseName = <<SUPABASE_SHARED_DIRECTORY>> THEN Null
                       ELSE Some(baseName)
               ELSE Some(firstSegment)

isServerFunction(p) == getSupabaseFunctionName(p) # Null

isSupabaseSharedPath(p) ==
    LET normalized == normalizeToPosix(p)
    IN \/ normalized = SUPABASE_FUNCTIONS_PREFIX \o <<SUPABASE_SHARED_DIRECTORY>>
       \/ StartsWithPrefix(normalized, SUPABASE_SHARED_PREFIX)

PathRuns == {"_shared", "example", "ts"}
PathAlphabet == {"/", BS, "."} \cup PathRuns

\* how the path may begin
PathStarts ==
    {<<>>,
     <<"src", "/">>,
     <<"supabase", "/", "functions">>,
     <<"supabase", "/", "functions", "/">>,
     <<"supabase", BS, "functions", BS>>,
     <<"supabase", "/", "functions", BS>>,
     <<"app", "/", "supabase", "/", "functions", "/">>}

RECURSIVE PathTailsUpTo(_)
PathTailsUpTo(n) ==
    IF n = 0 THEN {<<>>}
    ELSE LET shorter == PathTailsUpTo(n - 1)
         IN shorter \cup
            {Append(s, c) : s \in {t \in shorter : Len(t) = n - 1},
                            c \in PathAlphabet}

\* runs are maximal: no two of them stand side by side
NoAdjacentRuns(s) ==
    \A k \in 1..(Len(s) - 1) :
        (s[k] \in {"/", BS, "."}) \/ (s[k + 1] \in {"/", BS, "."})

InitPath ==
    /\ filePath \in {p \in {a \o b : a \in PathStarts,
                                     b \in PathTailsUpTo(MaxTail)} :
                        NoAdjacentRuns(p)}
    /\ pathResult = None

\* the three functions are called with the path
callPathFunctions ==
    /\ pathResult = None
    /\ pathResult' = Some([name |-> getSupabaseFunctionName(filePath),
                           server |-> isServerFunction(filePath),
                           shared |-> isSupabaseSharedPath(filePath)])
    /\ UNCHANGED filePath
    /\ UNCHANGED <<oldVars, listVars, sanitizeVars, formatVars, hookVars, handlerVars>>

NextPath == callPathFunctions

\* the path spelled with forward slashes only, with backslashes only
Slashes(p) == [k \in 1..Len(p) |-> IF p[k] = BS THEN "/" ELSE p[k]]
Backslashes(p) == [k \in 1..Len(p) |-> IF p[k] = "/" THEN BS ELSE p[k]]

\* n is under supabase/functions/, under supabase/functions/_shared/
UnderFunctions(n) ==
    Len(n) >= 4 /\ SubSeq(n, 1, 4) = <<"supabase", "/", "functions", "/">>
UnderShared(n) ==
    Len(n) >= 6
    /\ SubSeq(n, 1, 6) = <<"supabase", "/", "functions", "/", "_shared", "/">>

\* what follows supabase/functions/
Rest(n) == SubSeq(n, 5, Len(n))
HasSlash(r) == \E k \in 1..Len(r) : r[k] = "/"

\* the pieces of r before its first slash
Dir(r) ==
    LET first == CHOOSE k \in 1..Len(r) :
                    r[k] = "/" /\ \A j \in 1..(k - 1) : r[j] # "/"
    IN SubSeq(r, 1, first - 1)

\* r is <name>.<ext> with a name
IsNameDotExt(r) == Len(r) >= 3 /\ r[Len(r) - 1] = "." /\ r[Len(r)] # "."
NameOf(r) == SubSeq(r, 1, Len(r) - 2)

\* C32 as stated: null outside supabase/functions/ and under _shared/;
\* <dir> for supabase/functions/<dir>/...; <name> for the single file
\* supabase/functions/<name>.<ext>; the same for both spellings.
C32_FunctionName ==
    pathResult # None =>
        LET n == Slashes(filePath)
            name == pathResult[1].name
        IN /\ ~UnderFunctions(n) => name = Null
           /\ UnderShared(n) => name = Null
           /\ (UnderFunctions(n) /\ HasSlash(Rest(n))
               /\ Dir(Rest(n)) \notin {<<>>, <<"_shared">>})
                 => name = Some(Dir(Rest(n)))
           /\ (UnderFunctions(n) /\ ~HasSlash(Rest(n))
               /\ IsNameDotExt(Rest(n)))
                 => name = Some(NameOf(Rest(n)))
           /\ name = getSupabaseFunctionName(Slashes(filePath))
           /\ name = getSupabaseFunctionName(Backslashes(filePath))

\* C32: null outside supabase/functions/ and under _shared/; <dir> for
\* supabase/functions/<dir>/...; for the single file
\* supabase/functions/<name>.<ext>, <name> unless <name> is _shared, and
\* null when it is; the same for both spellings.
C32_FunctionNameNeverShared ==
    pathResult # None =>
        LET n == Slashes(filePath)
            name == pathResult[1].name
        IN /\ ~UnderFunctions(n) => name = Null
           /\ UnderShared(n) => name = Null
           /\ (UnderFunctions(n) /\ HasSlash(Rest(n))
               /\ Dir(Rest(n)) \notin {<<>>, <<"_shared">>})
                 => name = Some(Dir(Rest(n)))
           /\ (UnderFunctions(n) /\ ~HasSlash(Rest(n))
               /\ IsNameDotExt(Rest(n)))
                 => name = IF NameOf(Rest(n)) = <<"_shared">> THEN Null
                           ELSE Some(NameOf(Rest(n)))
           /\ name = getSupabaseFunctionName(Slashes(filePath))
           /\ name = getSupabaseFunctionName(Backslashes(filePath))

\* supabase\functions\_shared.ts has no function name
C32_Witness ==
    /\ filePath = <<"supabase", BS, "functions", BS, "_shared", ".", "ts">>
    /\ pathResult # None
    /\ pathResult[1].name = Null
    /\ ~pathResult[1].shared

\* C33: isServerFunction holds exactly when getSupabaseFunctionName is not
\* null; a shared path is no server function; the name returned is never
\* _shared.
C33_SharedIsNoFunction ==
    pathResult # None =>
        /\ pathResult[1].server <=> (pathResult[1].name # Null)
        /\ pathResult[1].shared => ~pathResult[1].server
        /\ pathResult[1].name # Some(<<"_shared">>)

\* supabase/functions/_shared/example is shared and no server function
C33_Witness ==
    /\ filePath = <<"supabase", "/", "functions", "/", "_shared", "/",
                    "example">>
    /\ pathResult = Some([name |-> Null, server |-> FALSE, shared |-> TRUE])

PathIdle ==
    /\ filePath = <<>>
    /\ pathResult = None

-----------------------------------------------------------------------------
(* sanitizeChatSuggestions *)
(* A text is a sequence of pieces; a piece is one whitespace character or  *)
(* a maximal run of other characters.                                      *)

\* run.toLowerCase() for the runs of the texts below
LowerRun(piece) ==
    CASE piece \in {"Keep", "KEEP"} -> "keep"
      [] piece \in {"Going", "GOING"} -> "going"
      [] piece \in {"Idea", "IDEA"} -> "idea"
      [] OTHER -> piece

\* text.toLowerCase()
toLowerCase(text) == [k \in 1..Len(text) |-> LowerRun(text[k])]

\* .filter((text) => text.length > 0)
RECURSIVE NonEmpty(_)
NonEmpty(texts) ==
    IF texts = <<>> THEN <<>>
    ELSE (IF Len(Head(texts)) > 0 THEN <<Head(texts)>> ELSE <<>>)
         \o NonEmpty(Tail(texts))

\* the loop over suggestions with the Map seen, then Array.from(seen.values()):
\* the texts whose key is not among keys, each key once, in order
RECURSIVE FirstOfEachKey(_, _)
FirstOfEachKey(texts, keys) ==
    IF texts = <<>> THEN <<>>
    ELSE LET key == toLowerCase(Head(texts))
         IN IF key \in keys THEN FirstOfEachKey(Tail(texts), keys)
            ELSE <<Head(texts)>>
                 \o FirstOfEachKey(Tail(texts), keys \cup {key})

\* the loop with the text itself as key
RECURSIVE FirstOfEachText(_, _)
FirstOfEachText(texts, keys) ==
    IF texts = <<>> THEN <<>>
    ELSE IF Head(texts) \in keys THEN FirstOfEachText(Tail(texts), keys)
         ELSE <<Head(texts)>>
              \o FirstOfEachText(Tail(texts), keys \cup {Head(texts)})

KEEP_GOING == <<"keep", " ", "going">>

\* .filter((text) => text.trim().toLowerCase() !== "keep going")
RECURSIVE NotKeepGoing(_)
NotKeepGoing(texts) ==
    IF texts = <<>> THEN <<>>
    ELSE (IF toLowerCase(trim(Head(texts))) # KEEP_GOING
          THEN <<Head(texts)>> ELSE <<>>)
         \o NotKeepGoing(Tail(texts))

\* sanitizeChatSuggestions that tells texts apart by case
sanitizeChatSuggestions_caseSensitive(raw) ==
    NotKeepGoing(FirstOfEachText(NonEmpty(MapTrim(raw)), {}))

sanitizeChatSuggestions(raw) ==
    NotKeepGoing(FirstOfEachKey(NonEmpty(MapTrim(raw)), {}))

SuggestionTexts ==
    {<<>>,
     <<" ", " ">>,
     <<"Keep", " ", "Going">>,
     <<"keep", " ", "going", " ">>,
     <<"keep", " ", " ", "going">>,
     <<"idea">>,
     <<" ", "Idea">>,
     <<"IDEA", "\t">>,
     <<"going">>}

RECURSIVE SuggestionsUpTo(_)
SuggestionsUpTo(n) ==
    IF n = 0 THEN {<<>>}
    ELSE LET shorter == SuggestionsUpTo(n - 1)
         IN shorter \cup
            {Append(s, t) : s \in {u \in shorter : Len(u) = n - 1},
                            t \in SuggestionTexts}

InitSanitize ==
    /\ rawSuggestions \in SuggestionsUpTo(MaxSuggestions)
    /\ sanitized = None

callSanitizeChatSuggestions ==
    /\ sanitized = None
    /\ sanitized' = Some(sanitizeChatSuggestions(rawSuggestions))
    /\ UNCHANGED rawSuggestions
    /\ UNCHANGED <<oldVars, listVars, pathVars, formatVars, hookVars, handlerVars>>

NextSanitize == callSanitizeChatSuggestions

\* the two texts are equal ignoring case
EqualIgnoringCase(a, b) == toLowerCase(a) = toLowerCase(b)

\* the input at k is kept: not blank, not "keep going", and no earlier
\* input is equal to it ignoring case once both are trimmed
Kept(raw, k) ==
    /\ trim(raw[k]) # <<>>
    /\ ~EqualIgnoringCase(trim(raw[k]), <<"keep", " ", "going">>)
    /\ \A j \in 1..(k - 1) : ~EqualIgnoringCase(trim(raw[j]), trim(raw[k]))

\* the trimmed inputs that are kept, in their order
RECURSIVE KeptFrom(_, _)
KeptFrom(raw, k) ==
    IF k > Len(raw) THEN <<>>
    ELSE (IF Kept(raw, k) THEN <<trim(raw[k])>> ELSE <<>>)
         \o KeptFrom(raw, k + 1)

\* C34: the result is the trimmed inputs that are not empty, not equal to
\* "keep going" ignoring case and not equal ignoring case to an earlier
\* input, in input order; no two of its entries are equal ignoring case;
\* sanitizing it again gives it back.
C34_Sanitize ==
    sanitized # None =>
        LET out == sanitized[1]
        IN /\ out = KeptFrom(rawSuggestions, 1)
           /\ \A j, k \in 1..Len(out) :
                 j # k => ~EqualIgnoringCase(out[j], out[k])
           /\ \A k \in 1..Len(out) :
                 out[k] # <<>> /\ trim(out[k]) = out[k]
           /\ sanitizeChatSuggestions(out) = out

\* " Idea", "Keep Going" and "IDEA\t" give the one entry "Idea"
C34_Witness ==
    /\ rawSuggestions = <<<<" ", "Idea">>, <<"Keep", " ", "Going">>,
                          <<"IDEA", "\t">>>>
    /\ sanitized = Some(<<<<"Idea">>>>)

SanitizeIdle ==
    /\ rawSuggestions = <<>>
    /\ sanitized = None

-----------------------------------------------------------------------------
(* formatChatHistoryForSuggestions *)
(* A long string is a sequence of runs; the run [c |-> x, n |-> k] is the  *)
(* character x written k times.                                            *)

CHAT_SUGGESTION_HISTORY_LIMIT == 6
CHAT_SUGGESTION_MESSAGE_SNIPPET == 600

Run(c, n) == [c |-> c, n |-> n]

\* the string made of the characters of chars, each once
Lit(chars) == [k \in 1..Len(chars) |-> Run(chars[k], 1)]

\* s.length
RECURSIVE StrLen(_)
StrLen(s) == IF s = <<>> THEN 0 ELSE Head(s).n + StrLen(Tail(s))

\* s.slice(0, n)
RECURSIVE Slice(_, _)
Slice(s, n) ==
    IF s = <<>> \/ n <= 0 THEN <<>>
    ELSE IF Head(s).n <= n THEN <<Head(s)>> \o Slice(Tail(s), n - Head(s).n)
    ELSE <<Run(Head(s).c, n)>>

Assistant == Lit(<<"A", "s", "s", "i", "s", "t", "a", "n", "t">>)
User == Lit(<<"U", "s", "e", "r">>)
Ellipsis == Lit(<<"...">>)

\* the callback of .map() without the ellipsis after a cut
FormatMessage_noEllipsis(message) ==
    LET speaker == IF message.role = "assistant" THEN Assistant ELSE User
        content == IF StrLen(message.content) > CHAT_SUGGESTION_MESSAGE_SNIPPET
                   THEN Slice(message.content, CHAT_SUGGESTION_MESSAGE_SNIPPET)
                   ELSE message.content
    IN speaker \o Lit(<<":", " ">>) \o content

\* the callback of .map()
FormatMessage(message) ==
    LET speaker == IF message.role = "assistant" THEN Assistant ELSE User
        content == IF StrLen(message.content) > CHAT_SUGGESTION_MESSAGE_SNIPPET
                   THEN Slice(message.content, CHAT_SUGGESTION_MESSAGE_SNIPPET)
                        \o Ellipsis
                   ELSE message.content
    IN speaker \o Lit(<<":", " ">>) \o content

\* parts.join("\n\n")
RECURSIVE Join(_)
Join(parts) ==
    IF parts = <<>> THEN <<>>
    ELSE IF Len(parts) = 1 THEN Head(parts)
    ELSE Head(parts) \o Lit(<<"\n", "\n">>) \o Join(Tail(parts))

formatChatHistoryForSuggestions(msgs) ==
    IF Len(msgs) = 0 THEN <<>>
    ELSE Join([k \in 1..Len(msgs) |-> FormatMessage(msgs[k])])

Roles == {"assistant", "user", "system"}
Contents ==
    {<<>>,
     <<Run("x", 5)>>,
     <<Run("x", CHAT_SUGGESTION_MESSAGE_SNIPPET - 1)>>,
     <<Run("x", CHAT_SUGGESTION_MESSAGE_SNIPPET)>>,
     <<Run("x", CHAT_SUGGESTION_MESSAGE_SNIPPET + 1)>>,
     <<Run("x", CHAT_SUGGESTION_MESSAGE_SNIPPET + 10)>>,
     <<Run("x", 300), Run("y", 310)>>}

RECURSIVE MessagesUpTo(_)
MessagesUpTo(n) ==
    IF n = 0 THEN {<<>>}
    ELSE LET shorter == MessagesUpTo(n - 1)
         IN shorter \cup
            {Append(s, m) : s \in {u \in shorter : Len(u) = n - 1},
                            m \in [role : Roles, content : Contents]}

InitFormat ==
    /\ messages \in MessagesUpTo(MaxMessages)
    /\ formatted = None

callFormatChatHistoryForSuggestions ==
    /\ formatted = None
    /\ formatted' = Some(formatChatHistoryForSuggestions(messages))
    /\ UNCHANGED messages
    /\ UNCHANGED <<oldVars, listVars, pathVars, sanitizeVars, hookVars, handlerVars>>

NextFormat == callFormatChatHistoryForSuggestions

\* the character of s at position i, counted from 1
RECURSIVE CharAt(_, _)
CharAt(s, i) ==
    IF i <= Head(s).n THEN Head(s).c ELSE CharAt(Tail(s), i - Head(s).n)

\* the characters of s at positions from + 1 .. from + Len(chars) are chars
ReadsAt(s, from, chars) ==
    /\ StrLen(s) >= from + Len(chars)
    /\ \A k \in 1..Len(chars) : CharAt(s, from + k) = chars[k]

SpeakerOf(m) ==
    IF m.role = "assistant"
    THEN <<"A", "s", "s", "i", "s", "t", "a", "n", "t", ":", " ">>
    ELSE <<"U", "s", "e", "r", ":", " ">>

ShownLength(m) ==
    IF StrLen(m.content) > 600 THEN 601 ELSE StrLen(m.content)

BlockLength(m) == Len(SpeakerOf(m)) + ShownLength(m)

\* where the block of message k begins in the result
RECURSIVE BlockStart(_, _)
BlockStart(msgs, k) ==
    IF k = 1 THEN 0
    ELSE BlockStart(msgs, k - 1) + BlockLength(msgs[k - 1]) + 2

\* C35: "" for no messages; otherwise the result reads, message after
\* message in input order, "Assistant: " for role assistant and "User: "
\* for any other role, then the content when it has at most 600
\* characters, or its first 600 characters and one ellipsis character when
\* it has more, with two line feeds between one block and the next and
\* nothing after the last.
C35_FormatHistory ==
    formatted # None =>
        LET out == formatted[1]
            n == Len(messages)
        IN IF n = 0 THEN out = <<>>
           ELSE /\ StrLen(out) =
                      BlockStart(messages, n) + BlockLength(messages[n])
                /\ \A k \in 1..n :
                      LET m == messages[k]
                          at == BlockStart(messages, k)
                          body == at + Len(SpeakerOf(m))
                          long == StrLen(m.content) > 600
                      IN /\ ReadsAt(out, at, SpeakerOf(m))
                         /\ \A i \in 1..(IF long THEN 600
                                         ELSE StrLen(m.content)) :
                               CharAt(out, body + i) = CharAt(m.content, i)
                         /\ long => CharAt(out, body + 601) = "..."
                         /\ k < n =>
                               ReadsAt(out, at + BlockLength(m), <<"\n", "\n">>)

\* a user message of 610 characters and an assistant message of 5
C35_Witness ==
    /\ messages = <<[role |-> "user", content |-> <<Run("x", 610)>>],
                    [role |-> "assistant", content |-> <<Run("x", 5)>>]>>
    /\ formatted # None
    /\ StrLen(formatted[1]) = 6 + 601 + 2 + 11 + 5

FormatIdle ==
    /\ messages = <<>>
    /\ formatted = None

-----------------------------------------------------------------------------
(* useChatSuggestions *)

ChatIds == {1, 2}
Responses == {<<>>, <<"first">>, <<"second">>}
ErrorMessages == {"failed"}

InitHook ==
    /\ chatId \in {None} \cup {Some(c) : c \in ChatIds}
    /\ enabled \in BOOLEAN
    /\ isStreaming \in BOOLEAN
    /\ mounted = FALSE
    /\ suggestions = <<>>
    /\ isLoading = FALSE
    /\ error = Null
    /\ requestIdRef = 0
    /\ fetches = <<>>

otherThanHook ==
    <<oldVars, listVars, pathVars, sanitizeVars, formatVars, handlerVars>>

\* the body of fetchSuggestions up to the await, with the props c and e of
\* the render that made the callback
fetchSuggestions(c, e) ==
    /\ requestIdRef < MaxRequests
    /\ requestIdRef' = requestIdRef + 1
    /\ IF c = None \/ ~e
       THEN /\ suggestions' = <<>>
            /\ error' = Null
            /\ isLoading' = FALSE
            /\ UNCHANGED fetches
       ELSE /\ isLoading' = TRUE
            /\ error' = Null
            /\ fetches' = Append(fetches, [requestId |-> requestIdRef + 1,
                                           pc |-> "await"])
            /\ UNCHANGED suggestions

\* the effect, run with the props c, e and s of the render it belongs to
useEffect(c, e, s) ==
    IF ~e
    THEN /\ suggestions' = <<>>
         /\ error' = Null
         /\ isLoading' = FALSE
         /\ UNCHANGED <<requestIdRef, fetches>>
    ELSE IF c = None
    THEN /\ suggestions' = <<>>
         /\ UNCHANGED <<error, isLoading, requestIdRef, fetches>>
    ELSE IF s
    THEN UNCHANGED <<stateVars, requestIdRef, fetches>>
    ELSE fetchSuggestions(c, e)

\* the first render's effect
mount ==
    /\ ~mounted
    /\ mounted' = TRUE
    /\ useEffect(chatId, enabled, isStreaming)
    /\ UNCHANGED propVars
    /\ UNCHANGED otherThanHook

\* a render with new props (or a new lastMessageId or modelSignature) and
\* the effect that follows it
render ==
    /\ mounted
    /\ \E c \in {None} \cup {Some(i) : i \in ChatIds}, e \in BOOLEAN,
          s \in BOOLEAN :
          /\ chatId' = c
          /\ enabled' = e
          /\ isStreaming' = s
          /\ useEffect(c, e, s)
    /\ UNCHANGED mounted
    /\ UNCHANGED otherThanHook

\* the caller runs the returned refreshSuggestions
refreshSuggestions ==
    /\ mounted
    /\ fetchSuggestions(chatId, enabled)
    /\ UNCHANGED <<propVars, mounted>>
    /\ UNCHANGED otherThanHook

\* the test of lines 50, 55 and 62, always passing
IsCurrent_always(requestId) == TRUE

\* requestIdRef.current === requestId
IsCurrent(requestId) == requestIdRef = requestId

Settled(k, current) ==
    [fetches EXCEPT ![k].pc = IF current THEN "applied" ELSE "dropped"]

\* getChatSuggestions of the k-th fetch resolves
responseArrives ==
    \E k \in 1..Len(fetches), response \in Responses :
        /\ fetches[k].pc = "await"
        /\ fetches' = Settled(k, IsCurrent(fetches[k].requestId))
        /\ IF IsCurrent(fetches[k].requestId)
           THEN /\ suggestions' = response
                /\ isLoading' = FALSE
                /\ UNCHANGED error
           ELSE UNCHANGED stateVars
        /\ UNCHANGED <<propVars, mounted, requestIdRef>>
        /\ UNCHANGED otherThanHook

\* getChatSuggestions of the k-th fetch rejects
errorArrives ==
    \E k \in 1..Len(fetches), message \in ErrorMessages :
        /\ fetches[k].pc = "await"
        /\ fetches' = Settled(k, IsCurrent(fetches[k].requestId))
        /\ IF IsCurrent(fetches[k].requestId)
           THEN /\ error' = Some(message)
                /\ suggestions' = <<>>
                /\ isLoading' = FALSE
           ELSE UNCHANGED stateVars
        /\ UNCHANGED <<propVars, mounted, requestIdRef>>
        /\ UNCHANGED otherThanHook

NextHook ==
    \/ mount
    \/ render
    \/ refreshSuggestions
    \/ responseArrives
    \/ errorArrives

\* the k-th fetch settles in this step
Settles(k) ==
    /\ k <= Len(fetches)
    /\ fetches[k].pc = "await"
    /\ Len(fetches') = Len(fetches)
    /\ fetches'[k].pc # "await"

\* C36: when the response or the error of a fetch arrives and a later
\* fetch has been started, suggestions, error and isLoading stay as they
\* are.
C36_OnlyLatestFetchApplies ==
    [][\A k \in 1..Len(fetches) :
          Settles(k) /\ k < Len(fetches) => UNCHANGED stateVars]_vars

\* the first fetch was answered while the second was awaited, and dropped:
\* requestIdRef went from 1 to 2 by the start of the second fetch only
C36_Witness ==
    /\ Len(fetches) = 2
    /\ fetches[1] = [requestId |-> 1, pc |-> "dropped"]
    /\ fetches[2] = [requestId |-> 2, pc |-> "await"]
    /\ requestIdRef = 2
    /\ isLoading

\* C37: whenever enabled is false or chatId is unset, suggestions are
\* empty.
C37_EmptyWhileOff ==
    mounted /\ (~enabled \/ chatId = None) => suggestions = <<>>

HookIdle ==
    /\ chatId = None
    /\ enabled = FALSE
    /\ isStreaming = FALSE
    /\ mounted = FALSE
    /\ suggestions = <<>>
    /\ isLoading = FALSE
    /\ error = Null
    /\ requestIdRef = 0
    /\ fetches = <<>>

-----------------------------------------------------------------------------
(* the chat:get-suggestions handler *)

Returned(v) == [kind |-> "returned", value |-> v]
Raised == [kind |-> "raised"]

RECURSIVE Reverse(_)
Reverse(s) == IF s = <<>> THEN <<>> ELSE Append(Reverse(Tail(s)), Head(s))

\* s.slice(0, n), and the rows of .limit(n)
FirstN(s, n) == SubSeq(s, 1, IF Len(s) < n THEN Len(s) ELSE n)

\* the table's message k: the chats take turns as the pattern says, and
\* the content of message k has k characters
Message(k, pattern) ==
    [chatId |-> IF pattern = "one chat" THEN 1
                ELSE IF pattern = "two chats" THEN 1 + (k % 2)
                ELSE IF k % 3 = 0 THEN 2 ELSE 1,
     role |-> IF k % 2 = 1 THEN "user" ELSE "assistant",
     content |-> <<Run("x", k)>>]

Tables ==
    {[k \in 1..n |-> Message(k, pattern)] :
        n \in 0..MaxStored,
        pattern \in {"one chat", "two chats", "mostly one chat"}}

SettingsRead ==
    {[kind |-> "throws"]} \cup
    [kind : {"ok"},
     enableChatSuggestions : BOOLEAN,
     chatSuggestionModel : {None, Some("suggestion model")},
     selectedModel : {None, Some("selected model")}]

Generated ==
    {<<>>,
     <<<<"idea">>>>,
     <<<<"idea">>, <<" ", "Idea">>, <<"Keep", " ", "Going">>, <<"going">>>>,
     <<<<"idea">>, <<"going">>, <<"plan">>, <<"test">>>>,
     <<<<" ", " ">>, <<"idea">>, <<"IDEA", "\t">>, <<"plan">>,
       <<"keep", " ", "going", " ">>, <<"test">>, <<"going">>>>}

Services ==
    [query : {"ok", "fails"},
     client : {"ok", "fails"},
     generate : {[kind |-> "fails"]} \cup
                {[kind |-> "ok", suggestions |-> g] : g \in Generated}]

InitHandler ==
    /\ settingsRead \in SettingsRead
    /\ table \in Tables
    /\ request \in ChatIds
    /\ services \in Services
    /\ handlerPc = "idle"
    /\ generation = None
    /\ handlerResult = None

otherThanHandler ==
    <<oldVars, listVars, pathVars, sanitizeVars, formatVars, hookVars>>

\* the catch block, throwing the error again
Caught_rethrows == Raised

\* the catch block
Caught == Returned(<<>>)

\* settings.chatSuggestionModel ?? settings.selectedModel
suggestionModel(read) ==
    IF read.chatSuggestionModel # None
    THEN read.chatSuggestionModel
    ELSE read.selectedModel

\* the handler up to the query
getSuggestions ==
    /\ handlerPc = "idle"
    /\ IF settingsRead.kind = "throws"
       THEN handlerPc' = "done" /\ handlerResult' = Some(Caught)
       ELSE IF ~settingsRead.enableChatSuggestions
       THEN handlerPc' = "done" /\ handlerResult' = Some(Returned(<<>>))
       ELSE IF suggestionModel(settingsRead) = None
       THEN handlerPc' = "done" /\ handlerResult' = Some(Returned(<<>>))
       ELSE handlerPc' = "query" /\ UNCHANGED handlerResult
    /\ UNCHANGED <<handlerInputs, generation>>
    /\ UNCHANGED otherThanHandler

\* where(eq(messages.chatId, chatId))
RECURSIVE OfChat(_, _)
OfChat(rows, c) ==
    IF rows = <<>> THEN <<>>
    ELSE IF Head(rows).chatId = c
    THEN <<[role |-> Head(rows).role, content |-> Head(rows).content]>>
         \o OfChat(Tail(rows), c)
    ELSE OfChat(Tail(rows), c)

\* the query: newest first, at most CHAT_SUGGESTION_HISTORY_LIMIT rows
history == FirstN(Reverse(OfChat(table, request)), CHAT_SUGGESTION_HISTORY_LIMIT)

\* history.reverse()
orderedHistory == Reverse(history)

conversation == formatChatHistoryForSuggestions(orderedHistory)

NoPriorMessages == <<Run("No prior messages.", 1)>>

\* the query settles, and getModelClient is called
querySettles ==
    /\ handlerPc = "query"
    /\ IF services.query = "fails"
       THEN handlerPc' = "done" /\ handlerResult' = Some(Caught)
       ELSE handlerPc' = "client" /\ UNCHANGED handlerResult
    /\ UNCHANGED <<handlerInputs, generation>>
    /\ UNCHANGED otherThanHandler

\* getModelClient settles, and generateObject is called
getModelClientSettles ==
    /\ handlerPc = "client"
    /\ IF services.client = "fails"
       THEN /\ handlerPc' = "done"
            /\ handlerResult' = Some(Caught)
            /\ UNCHANGED generation
       ELSE /\ handlerPc' = "generate"
            /\ generation' =
                 Some([model |-> suggestionModel(settingsRead)[1],
                       conversation |-> IF conversation = <<>>
                                        THEN NoPriorMessages
                                        ELSE conversation])
            /\ UNCHANGED handlerResult
    /\ UNCHANGED handlerInputs
    /\ UNCHANGED otherThanHandler

\* generateObject settles
generateObjectSettles ==
    /\ handlerPc = "generate"
    /\ handlerPc' = "done"
    /\ IF services.generate.kind = "fails"
       THEN handlerResult' = Some(Caught)
       ELSE handlerResult' =
              Some(Returned(FirstN(
                  sanitizeChatSuggestions(services.generate.suggestions), 3)))
    /\ UNCHANGED <<handlerInputs, generation>>
    /\ UNCHANGED otherThanHandler

NextHandler ==
    \/ getSuggestions
    \/ querySettles
    \/ getModelClientSettles
    \/ generateObjectSettles

\* the messages of the requested chat, oldest first
ChatMessages == OfChat(table, request)

\* the at most 6 newest of them, oldest first
NewestSix ==
    IF Len(ChatMessages) <= 6 THEN ChatMessages
    ELSE SubSeq(ChatMessages, Len(ChatMessages) - 5, Len(ChatMessages))

NothingToSuggest ==
    \/ settingsRead.kind = "throws"
    \/ ~settingsRead.enableChatSuggestions
    \/ /\ settingsRead.chatSuggestionModel = None
       /\ settingsRead.selectedModel = None
    \/ services.query = "fails"
    \/ services.client = "fails"
    \/ services.generate.kind = "fails"

\* C38: the handler returns and never raises; it returns the empty list
\* when reading the settings fails, suggestions are disabled, no model is
\* configured or a step fails; otherwise the generation is asked with the
\* at most 6 newest messages of the chat, oldest first, and the handler
\* returns the first 3 (or all, when fewer) of the sanitized suggestions.
C38_HandlerAlwaysReturns ==
    /\ handlerResult # None =>
          /\ handlerResult[1].kind = "returned"
          /\ NothingToSuggest => handlerResult[1].value = <<>>
          /\ ~NothingToSuggest =>
                LET clean == sanitizeChatSuggestions(services.generate.suggestions)
                    value == handlerResult[1].value
                IN /\ Len(value) <= 3
                   /\ Len(value) = (IF Len(clean) < 3 THEN Len(clean) ELSE 3)
                   /\ \A k \in 1..Len(value) : value[k] = clean[k]
    /\ generation # None =>
          generation[1].conversation =
             (IF NewestSix = <<>> THEN NoPriorMessages
              ELSE formatChatHistoryForSuggestions(NewestSix))

\* eight messages of the chat are stored, the generation gave four usable
\* suggestions among seven, and three came back
C38_Witness ==
    /\ handlerPc = "done"
    /\ Len(ChatMessages) = 8
    /\ Len(NewestSix) = 6
    /\ generation # None
    /\ services.generate.kind = "ok"
    /\ Len(services.generate.suggestions) = 7
    /\ handlerResult = Some(Returned(<<<<"idea">>, <<"plan">>, <<"test">>>>))

HandlerIdle ==
    /\ settingsRead = [kind |-> "throws"]
    /\ table = <<>>
    /\ request = 1
    /\ services = [query |-> "fails", client |-> "fails",
                   generate |-> [kind |-> "fails"]]
    /\ handlerPc = "idle"
    /\ generation = None
    /\ handlerResult = None

\* the parts added first, all at rest
OldIdle ==
    TokenIdle /\ ServeIdle /\ CliIdle /\ QuoteIdle /\ FlowIdle /\ BundlerIdle

\* the parts added later, all at rest
MoreIdle ==
    ListIdle /\ PathIdle /\ SanitizeIdle /\ FormatIdle /\ HookIdle /\ HandlerIdle

Init ==
    InitToken /\ ServeIdle /\ CliIdle /\ QuoteIdle /\ FlowIdle /\ BundlerIdle
    /\ MoreIdle
Next == NextToken
Spec == Init /\ [][Next]_vars

\* one serve invocation
InitServeSpec ==
    InitServe /\ TokenIdle /\ CliIdle /\ QuoteIdle /\ FlowIdle /\ BundlerIdle
    /\ MoreIdle
SpecServe == InitServeSpec /\ [][NextServe]_vars

\* one waitForSupabaseCli call
InitCliSpec ==
    InitCli /\ TokenIdle /\ ServeIdle /\ QuoteIdle /\ FlowIdle /\ BundlerIdle
    /\ MoreIdle
SpecCli == InitCliSpec /\ [][NextCli]_vars

\* the steps of the call are taken whenever they can be: the lookup command
\* ends and the timer of sleep() fires
\* the call alone, in an environment that does not change while it waits
SpecCliLive == InitCliSpec /\ [][CliStep]_vars /\ WF_vars(CliStep)

\* one quoteCommand call
InitQuoteSpec ==
    InitQuote /\ TokenIdle /\ ServeIdle /\ CliIdle /\ FlowIdle /\ BundlerIdle
    /\ MoreIdle
SpecQuote == InitQuoteSpec /\ [][NextQuote]_vars

\* one deploySupabaseFunctions or serveSupabaseFunction call
InitFlowSpec ==
    InitFlow /\ ServeIdle /\ QuoteIdle /\ BundlerIdle /\ MoreIdle
SpecFlow == InitFlowSpec /\ [][NextFlow]_vars

\* one onResolve call
InitResolveSpec ==
    /\ InitResolve
    /\ platform \in Platforms
    /\ BundleIdle /\ TokenIdle /\ ServeIdle /\ CliAtRest /\ QuoteIdle /\ FlowIdle
    /\ MoreIdle
SpecResolve == InitResolveSpec /\ [][NextResolve]_vars

\* one bundleSupabaseFunction call
InitBundleSpec ==
    /\ InitBundle
    /\ platform \in Platforms
    /\ ResolveIdle /\ TokenIdle /\ ServeIdle /\ CliAtRest /\ QuoteIdle /\ FlowIdle
    /\ MoreIdle
SpecBundle == InitBundleSpec /\ [][NextBundle]_vars

\* one listSupabaseFunctionNames call
InitListSpec ==
    /\ InitList /\ OldIdle /\ PathIdle /\ SanitizeIdle
    /\ FormatIdle /\ HookIdle /\ HandlerIdle
SpecList == InitListSpec /\ [][NextList]_vars

\* one path given to the three path functions
InitPathSpec ==
    /\ InitPath /\ OldIdle /\ ListIdle /\ SanitizeIdle
    /\ FormatIdle /\ HookIdle /\ HandlerIdle
SpecPath == InitPathSpec /\ [][NextPath]_vars

\* one sanitizeChatSuggestions call
InitSanitizeSpec ==
    /\ InitSanitize /\ OldIdle /\ ListIdle /\ PathIdle
    /\ FormatIdle /\ HookIdle /\ HandlerIdle
SpecSanitize == InitSanitizeSpec /\ [][NextSanitize]_vars

\* one formatChatHistoryForSuggestions call
InitFormatSpec ==
    /\ InitFormat /\ OldIdle /\ ListIdle /\ PathIdle /\ SanitizeIdle
    /\ HookIdle /\ HandlerIdle
SpecFormat == InitFormatSpec /\ [][NextFormat]_vars

\* the hook, its renders and its fetches
InitHookSpec ==
    /\ InitHook /\ OldIdle /\ ListIdle /\ PathIdle /\ SanitizeIdle
    /\ FormatIdle /\ HandlerIdle
SpecHook == InitHookSpec /\ [][NextHook]_vars

\* one chat:get-suggestions request
InitHandlerSpec ==
    /\ InitHandler /\ OldIdle /\ ListIdle /\ PathIdle /\ SanitizeIdle
    /\ FormatIdle /\ HookIdle
SpecHandler == InitHandlerSpec /\ [][NextHandler]_vars

====
